---------------------------- MODULE Spec2Model ----------------------------
(***************************************************************************)
(* Quadrature schemes on the tetrahedron (src/quadrature/tetrahedron.py)   *)
(* and Stroud's 1957 n-cube schemes (src/quadpy/ncube/_stroud_1957.py).    *)
(*                                                                         *)
(* NUMBERS.  The program computes in binary64.  The model computes in      *)
(* decimal fixed point with twenty decimals: a number is a tuple           *)
(*     <<n0, n1, n2, n3, n4, n5>>,  n1..n5 \in 0..9999,  n0 \in Int        *)
(* standing for  n0 + n1/10^4 + n2/10^8 + n3/10^12 + n4/10^16 + n5/10^20,  *)
(* so that -0.8 is <<-1, 2000, 0, 0, 0, 0>> and the literal                *)
(* 0.2177650698804054 is <<0, 2177, 6506, 9880, 4054, 0>>.  Addition,      *)
(* subtraction and multiplication by an integer are exact; a product, a    *)
(* quotient and a root are rounded toward zero to the unit 10^-20, as each *)
(* binary64 operation is rounded to its last place (2^-53 relative, which  *)
(* is coarser).  A decimal literal of the source is read to the nearest    *)
(* unit, as Python reads it to the nearest binary64.  Results of the model *)
(* and of the program therefore agree to rounding, and numeric properties   *)
(* are stated with the tolerance Tol.                                      *)
(***************************************************************************)
EXTENDS Integers, Sequences, FiniteSets, TLC

VARIABLES call, object, result

vars == <<call, object, result>>

---------------------------------------------------------------------------
(* Fixed-point arithmetic: the model of the program's float arithmetic.    *)

\* carry propagation, floor semantics: the lower five limbs end in 0..9999
Norm6(c0, c1, c2, c3, c4, c5) ==
  LET d4 == c4 + (c5 \div 10000)
      d3 == c3 + (d4 \div 10000)
      d2 == c2 + (d3 \div 10000)
      d1 == c1 + (d2 \div 10000)
  IN <<c0 + (d1 \div 10000), d1 % 10000, d2 % 10000, d3 % 10000,
       d4 % 10000, c5 % 10000>>

FromInt(n) == <<n, 0, 0, 0, 0, 0>>

Zero == FromInt(0)

One == FromInt(1)

Add(a, b) ==
  Norm6(a[1] + b[1], a[2] + b[2], a[3] + b[3], a[4] + b[4], a[5] + b[5],
        a[6] + b[6])

Neg(a) == Norm6(-a[1], -a[2], -a[3], -a[4], -a[5], -a[6])

Sub(a, b) ==
  Norm6(a[1] - b[1], a[2] - b[2], a[3] - b[3], a[4] - b[4], a[5] - b[5],
        a[6] - b[6])

\* k * a for an integer k (exact)
MulInt(k, a) == Norm6(k * a[1], k * a[2], k * a[3], k * a[4], k * a[5], k * a[6])

IsNeg(a) == a[1] < 0

Abs(a) == IF IsNeg(a) THEN Neg(a) ELSE a

\* v with the sign changed if neg
WithSign(neg, v) == IF neg THEN Neg(v) ELSE v

\* a < b and a <= b: limbs are normalised, so the order is lexicographic
Less(a, b) ==
  \E i \in 1..6 : a[i] < b[i] /\ \A j \in 1..(i - 1) : a[j] = b[j]

Leq(a, b) == a = b \/ Less(a, b)

\* product of two non-negative numbers, rounded down to the unit
MulPos(a, b) ==
  LET a0 == a[1]  a1 == a[2]  a2 == a[3]  a3 == a[4]  a4 == a[5]  a5 == a[6]
      b0 == b[1]  b1 == b[2]  b2 == b[3]  b3 == b[4]  b4 == b[5]  b5 == b[6]
      e10 == a5*b5
      e9 == a4*b5 + a5*b4 + (e10 \div 10000)
      e8 == a3*b5 + a4*b4 + a5*b3 + (e9 \div 10000)
      e7 == a2*b5 + a3*b4 + a4*b3 + a5*b2 + (e8 \div 10000)
      e6 == a1*b5 + a2*b4 + a3*b3 + a4*b2 + a5*b1 + (e7 \div 10000)
  IN Norm6(a0*b0,
           a0*b1 + a1*b0,
           a0*b2 + a1*b1 + a2*b0,
           a0*b3 + a1*b2 + a2*b1 + a3*b0,
           a0*b4 + a1*b3 + a2*b2 + a3*b1 + a4*b0,
           a0*b5 + a1*b4 + a2*b3 + a3*b2 + a4*b1 + a5*b0 + (e6 \div 10000))

\* a * b, rounded toward zero (the products by 0 and by 1 are exact and
\* are returned at once)
Mul(a, b) ==
  IF a = Zero \/ b = Zero THEN Zero
  ELSE IF b = One THEN a
  ELSE IF a = One THEN b
  ELSE WithSign(IsNeg(a) # IsNeg(b), MulPos(Abs(a), Abs(b)))

\* a / k for an integer 0 < k < 200000 and a >= 0, rounded down
DivIntPos(a, k) ==
  LET r0 == a[1] % k
      t1 == r0 * 10000 + a[2]
      t2 == (t1 % k) * 10000 + a[3]
      t3 == (t2 % k) * 10000 + a[4]
      t4 == (t3 % k) * 10000 + a[5]
      t5 == (t4 % k) * 10000 + a[6]
  IN <<a[1] \div k, t1 \div k, t2 \div k, t3 \div k, t4 \div k, t5 \div k>>

\* a / k for an integer k # 0, rounded toward zero
DivInt(a, k) ==
  WithSign(IsNeg(a) # (k < 0), DivIntPos(Abs(a), IF k < 0 THEN -k ELSE k))

\* four decimal digits of r / q (0 <= r < q < 2*10^8), with the remainder
FracLimb(r, q) ==
  LET u1 == r * 10
      u2 == (u1 % q) * 10
      u3 == (u2 % q) * 10
      u4 == (u3 % q) * 10
  IN <<(u1 \div q) * 1000 + (u2 \div q) * 100 + (u3 \div q) * 10 + (u4 \div q),
       u4 % q>>

\* p / q for integers p >= 0 and q > 0, rounded down
FracPos(p, q) ==
  LET l1 == FracLimb(p % q, q)
      l2 == FracLimb(l1[2], q)
      l3 == FracLimb(l2[2], q)
      l4 == FracLimb(l3[2], q)
      l5 == FracLimb(l4[2], q)
  IN <<p \div q, l1[1], l2[1], l3[1], l4[1], l5[1]>>

\* p / q for integers p and q # 0 (a quotient of two integer-valued floats)
Frac(p, q) ==
  WithSign((p < 0) # (q < 0),
           FracPos(IF p < 0 THEN -p ELSE p, IF q < 0 THEN -q ELSE q))

\* a * 10^4 (exact)
ShiftL(a) == <<a[1] * 10000 + a[2], a[3], a[4], a[5], a[6], 0>>

\* the largest d in lo..hi with d * b <= r  (lo * b <= r is given)
RECURSIVE MaxDigit(_, _, _, _)
MaxDigit(r, b, lo, hi) ==
  IF lo = hi THEN lo
  ELSE LET mid == (lo + hi + 1) \div 2
       IN IF Leq(MulInt(mid, b), r) THEN MaxDigit(r, b, mid, hi)
          ELSE MaxDigit(r, b, lo, mid - 1)

\* quotient limbs k..5 of r / b, r < b * 10^4 being the scaled remainder
RECURSIVE DivLimbs(_, _, _)
\* limb k of the quotient is d: d, then the limbs of the remainder
DivLimbsFrom(r, b, k, d) ==
  <<d>> \o DivLimbs(ShiftL(Sub(r, MulInt(d, b))), b, k + 1)

DivLimbs(r, b, k) ==
  IF k > 5 THEN << >> ELSE DivLimbsFrom(r, b, k, MaxDigit(r, b, 0, 9999))

\* a / b for a >= 0, b > 0 (a / b < 10^5), rounded down
RECURSIVE DivPos(_, _)
DivPos(a, b) ==
  IF b[1] = 0 /\ b[2] = 0 THEN DivPos(ShiftL(a), ShiftL(b))
  ELSE DivLimbsFrom(a, b, 0,
                    MaxDigit(a, b, 0,
                             IF b[1] > 0 THEN a[1] \div b[1]
                             ELSE ((a[1] + 1) * 10000) \div b[2]))

\* a / b, rounded toward zero
Div(a, b) == WithSign(IsNeg(a) # IsNeg(b), DivPos(Abs(a), Abs(b)))

\* Newton's iteration from above for the square root
RECURSIVE SqrtIter(_, _)
\* y is the iterate after x: the iteration ends when it stops decreasing
SqrtStep(a, x, y) == IF Less(y, x) THEN SqrtIter(a, y) ELSE x

SqrtIter(a, x) == SqrtStep(a, x, DivIntPos(Add(x, DivPos(a, x)), 2))

\* numpy.sqrt(a) for a >= 0
sqrt(a) == IF a = Zero THEN Zero ELSE SqrtIter(a, FromInt(a[1] + 1))


Half == <<0, 5000, 0, 0, 0, 0>>

Quarter == <<0, 2500, 0, 0, 0, 0>>

\* numpy.pi
pi == <<3, 1415, 9265, 3589, 7932, 3846>>

\* the cosine series at x >= 0: st = <<term, sum>>, term = x^(2k) / (2k)!,
\* x2 = x^2
RECURSIVE CosSeries(_, _, _)
CosSeries(x2, st, k) ==
  IF st[1] = Zero THEN st[2]
  ELSE CosSeries(x2,
                 <<DivIntPos(MulPos(st[1], x2), (2 * k + 1) * (2 * k + 2)),
                   IF k % 2 = 0 THEN Add(st[2], st[1]) ELSE Sub(st[2], st[1])>>,
                 k + 1)

\* x modulo twopi, for x >= 0
Reduced(x, twopi) == Sub(x, MulInt(DivPos(x, twopi)[1], twopi))

\* the cosine of r in [0, 2 pi)
CosReduced(r) == CosSeries(MulPos(r, r), <<One, Zero>>, 0)

\* numpy.cos(a): the argument is reduced to [0, 2 pi)
cos(a) == CosReduced(Reduced(Abs(a), MulInt(2, pi)))

\* numpy.sin(a)
sin(a) == cos(Sub(a, DivInt(pi, 2)))

\* the arcsine series at 0 <= x < 1: st = <<u, sum>>,
\* u = (2k)! / (4^k k!^2) x^(2k+1), x2 = x^2
RECURSIVE ArcSinSeries(_, _, _)
ArcSinSeries(x2, st, k) ==
  IF st[1] = Zero THEN st[2]
  ELSE ArcSinSeries(x2,
                    <<DivIntPos(MulInt(2 * k + 1, MulPos(st[1], x2)), 2 * k + 2),
                      Add(st[2], DivIntPos(st[1], 2 * k + 1))>>,
                    k + 1)

\* arcsin(x) for 0 <= x <= 0.71
arcsin(x) == ArcSinSeries(MulPos(x, x), <<x, Zero>>, 0)

\* arccos(x) from the arcsine u of x (small) or of sqrt((1 - x) / 2)
ArcCosFrom(small, u) == IF small THEN Sub(DivInt(pi, 2), u) ELSE MulInt(2, u)

\* arccos(x) for 0 <= x <= 1: pi/2 - arcsin(x) up to x = 0.5, and
\* 2 arcsin(sqrt((1 - x) / 2)) beyond, where the series of arcsin(x)
\* converges too slowly
ArcCosPos(x) ==
  ArcCosFrom(Leq(x, Half),
             arcsin(IF Leq(x, Half) THEN x
                    ELSE sqrt(DivIntPos(Sub(One, x), 2))))

\* v, or pi - v
Reflected(neg, v) == IF neg THEN Sub(pi, v) ELSE v

\* numpy.arccos(a) for |a| <= 1: arccos(-x) = pi - arccos(x)
arccos(a) == Reflected(IsNeg(a), ArcCosPos(Abs(a)))

\* not a number, the value of 0 / 0.0 in an array division: no number has
\* a negative last limb
NaN == <<0, 0, 0, 0, 0, -1>>

IsNaN(a) == a[6] < 0

\* the tolerance of the numeric properties, 10^-14
Tol == <<0, 0, 0, 0, 100, 0>>

\* float addition, subtraction and product: not a number stays one
AddF(a, b) == IF IsNaN(a) \/ IsNaN(b) THEN NaN ELSE Add(a, b)

SubF(a, b) == IF IsNaN(a) \/ IsNaN(b) THEN NaN ELSE Sub(a, b)

MulF(a, b) == IF IsNaN(a) \/ IsNaN(b) THEN NaN ELSE Mul(a, b)

\* a and b are numbers and differ by eps at most
CloseWithin(a, b, eps) ==
  LET d == SubF(a, b)
  IN ~IsNaN(d) /\ Leq(d, eps) /\ Leq(Neg(d), eps)

Close(a, b) == CloseWithin(a, b, Tol)

---------------------------------------------------------------------------
(* Faulty variants of definitions that follow.  A property that depends on *)
(* a definition fails when the variant stands in its place.                *)

\* _s211 with its last row a repetition of the first
Repeating_s211(a, b) ==
  LET c == Sub(Sub(One, MulInt(2, a)), b)
  IN << <<a, a, b, c>>, <<a, b, a, c>>, <<b, a, a, c>>,
        <<a, b, c, a>>, <<b, a, c, a>>, <<b, c, a, a>>,
        <<a, a, c, b>>, <<a, c, a, b>>, <<c, a, a, b>>,
        <<a, c, b, a>>, <<c, a, b, a>>, <<a, a, b, c>> >>

\* _s22 with b = 1 - a
Whole_s22(a) ==
  LET b == Sub(One, a)
  IN << <<a, a, b, b>>, <<a, b, a, b>>, <<b, a, a, b>>,
        <<a, b, b, a>>, <<b, a, b, a>>, <<b, b, a, a>> >>

---------------------------------------------------------------------------
(* Orbit generators: each row is a tuple of four barycentric coordinates.  *)

_s4 == << <<Quarter, Quarter, Quarter, Quarter>> >>

\* faulty variant of _s31: the fourth coordinate is 1 - 2a
Misplaced_s31(a) ==
  LET b == Sub(One, MulInt(2, a))
  IN << <<a, a, a, b>>,
        <<a, a, b, a>>,
        <<a, b, a, a>>,
        <<b, a, a, a>> >>

_s31(a) ==
  LET b == Sub(One, MulInt(3, a))
  IN << <<a, a, a, b>>,
        <<a, a, b, a>>,
        <<a, b, a, a>>,
        <<b, a, a, a>> >>

\* faulty variant of _s22: two rows are missing
Short_s22(a) ==
  LET b == Sub(Half, a)
  IN << <<a, a, b, b>>, <<a, b, a, b>>, <<b, a, a, b>>, <<a, b, b, a>> >>

_s22(a) ==
  LET b == Sub(Half, a)
  IN << <<a, a, b, b>>,
        <<a, b, a, b>>,
        <<b, a, a, b>>,
        <<a, b, b, a>>,
        <<b, a, b, a>>,
        <<b, b, a, a>> >>

\* faulty variant of _s211: the derived coordinate is 1 - 2a - 2b
Overshooting_s211(a, b) ==
  LET c == Sub(Sub(One, MulInt(2, a)), MulInt(2, b))
  IN << <<a, a, b, c>>,
        <<a, b, a, c>>,
        <<b, a, a, c>>,
        <<a, b, c, a>>,
        <<b, a, c, a>>,
        <<b, c, a, a>>,
        <<a, a, c, b>>,
        <<a, c, a, b>>,
        <<c, a, a, b>>,
        <<a, c, b, a>>,
        <<c, a, b, a>>,
        <<c, b, a, a>> >>

_s211(a, b) ==
  LET c == Sub(Sub(One, MulInt(2, a)), b)
  IN << <<a, a, b, c>>,
        <<a, b, a, c>>,
        <<b, a, a, c>>,
        <<a, b, c, a>>,
        <<b, a, c, a>>,
        <<b, c, a, a>>,
        <<a, a, c, b>>,
        <<a, c, a, b>>,
        <<c, a, a, b>>,
        <<a, c, b, a>>,
        <<c, a, b, a>>,
        <<c, b, a, a>> >>

_s1111(a, b, c) ==
  LET d == Sub(Sub(Sub(One, a), b), c)
  IN << <<a, b, c, d>>,
        <<a, b, d, c>>,
        <<a, c, b, d>>,
        <<a, c, d, b>>,
        <<a, d, b, c>>,
        <<a, d, c, b>>,
        <<b, a, c, d>>,
        <<b, a, d, c>>,
        <<b, c, a, d>>,
        <<b, c, d, a>>,
        <<b, d, a, c>>,
        <<b, d, c, a>>,
        <<c, a, b, d>>,
        <<c, a, d, b>>,
        <<c, b, a, d>>,
        <<c, b, d, a>>,
        <<c, d, a, b>>,
        <<c, d, b, a>>,
        <<d, a, b, c>>,
        <<d, a, c, b>>,
        <<d, b, a, c>>,
        <<d, b, c, a>>,
        <<d, c, a, b>>,
        <<d, c, b, a>> >>

\* HammerMarloweStroud._r
_r(r) ==
  LET a == Add(r, DivInt(Sub(One, r), 4))
      b == DivInt(Sub(One, a), 3)
  IN << <<a, b, b, b>>,
        <<b, a, b, b>>,
        <<b, b, a, b>>,
        <<b, b, b, a>> >>

\* faulty variant of _r_alpha: mu_i = (1 + alpha) / 4, mu_j = (3 - alpha) / 12
Flat_r_alpha(alpha) ==
  LET a == DivInt(Add(One, alpha), 4)
      b == DivInt(Sub(FromInt(3), alpha), 12)
  IN << <<a, b, b, b>>,
        <<b, a, b, b>>,
        <<b, b, a, b>>,
        <<b, b, b, a>> >>

\* LiuVinokur._r_alpha
_r_alpha(alpha) ==
  LET a == DivInt(Add(One, MulInt(3, alpha)), 4)
      b == DivInt(Sub(One, alpha), 4)
  IN << <<a, b, b, b>>,
        <<b, a, b, b>>,
        <<b, b, a, b>>,
        <<b, b, b, a>> >>

\* LiuVinokur._r_beta
_r_beta(beta) ==
  LET a == DivInt(Add(One, MulInt(2, beta)), 4)
      b == DivInt(Sub(One, MulInt(2, beta)), 4)
  IN << <<a, a, b, b>>,
        <<a, b, a, b>>,
        <<b, a, a, b>>,
        <<a, b, b, a>>,
        <<b, a, b, a>>,
        <<b, b, a, a>> >>

\* LiuVinokur._r_gamma_delta
_r_gamma_delta(gamma, delta) ==
  LET b == DivInt(Sub(Add(One, MulInt(3, gamma)), delta), 4)
      c == DivInt(Sub(Add(One, MulInt(3, delta)), gamma), 4)
      a == DivInt(Sub(Sub(One, gamma), delta), 4)
  IN << <<a, a, b, c>>,
        <<a, b, a, c>>,
        <<b, a, a, c>>,
        <<a, b, c, a>>,
        <<b, a, c, a>>,
        <<b, c, a, a>>,
        <<a, a, c, b>>,
        <<a, c, a, b>>,
        <<c, a, a, b>>,
        <<a, c, b, a>>,
        <<c, a, b, a>>,
        <<c, b, a, a>> >>


---------------------------------------------------------------------------
(* Scheme objects.  An object is a record of the attributes assigned so    *)
(* far, next to its class; a constructor either returns the object or      *)
(* raises, and what it raises leaves the object as it was at that point.   *)

\* numpy.ones(k)
ones(k) == [i \in 1..k |-> One]

\* w * v for a scalar w and an array v
Times(w, v) == [i \in 1..Len(v) |-> Mul(w, v[i])]

\* k * v for an integer k and an array v
Scale(k, v) == [i \in 1..Len(v) |-> MulInt(k, v[i])]

\* the sum of v[lo..hi], halving the range (additions are exact)
RECURSIVE SumRange(_, _, _)
SumRange(v, lo, hi) ==
  IF lo > hi THEN Zero
  ELSE IF lo = hi THEN v[lo]
  ELSE LET mid == (lo + hi) \div 2
       IN Add(SumRange(v, lo, mid), SumRange(v, mid + 1, hi))

\* math.fsum(v) and numpy.sum(v): the model's sum is exact
fsum(v) ==
  LET values == v \o <<>>
  IN SumRange(values, 1, Len(values))

\* numpy.concatenate(parts)
RECURSIVE concatenate(_)
concatenate(parts) ==
  IF parts = <<>> THEN <<>> ELSE Head(parts) \o concatenate(Tail(parts))

\* bary[:, 1:] and bary[:, [1, 2, 3]]
Columns123(bary) ==
  [i \in 1..Len(bary) |-> <<bary[i][2], bary[i][3], bary[i][4]>>]

\* the constructor returns: self holds the attributes assigned
Returned(self) == [self |-> self, raised |-> "", message |-> ""]

\* faulty variant of Raised: the error is swallowed
Swallowed(self, error, message) ==
  [self |-> self, raised |-> "", message |-> ""]

\* the constructor raises: self holds the attributes assigned before
Raised(self, error, message) ==
  [self |-> self, raised |-> error, message |-> message]

---------------------------------------------------------------------------
(* The tabulated families.  For each, WeightParts and BaryParts are the    *)
(* lists handed to numpy.concatenate for self.weights and for bary, in     *)
(* the order of the source.                                                *)

\* HammerMarloweStroud.__init__: the indices of the table
HammerMarloweStroudIndices == {1, 2, 3}

\* HammerMarloweStroud.__init__: the arrays concatenated into self.weights
HammerMarloweStroudWeightParts(index) ==
  CASE index = 1 ->
         << Times(Quarter, ones(4)) >>
    [] index = 2 ->
         << Times(Quarter, ones(4)) >>
    [] index = 3 ->
         << Times(Neg(<<0, 8000, 0, 0, 0, 0>>), ones(1)),
            Times(Frac(9, 20), ones(4)) >>

\* HammerMarloweStroud.__init__: the orbits concatenated into bary
HammerMarloweStroudBaryParts(index) ==
  CASE index = 1 ->
         << _r(Div(One, sqrt(FromInt(5)))) >>
    [] index = 2 ->
         << _r(Div(FromInt(-1), sqrt(FromInt(5)))) >>
    [] index = 3 ->
         << _s4,
            _r(Frac(1, 3)) >>

\* HammerMarloweStroud.__init__: self.degree
HammerMarloweStroudDegree(index) ==
  CASE index = 1 -> 2
    [] index = 2 -> 2
    [] index = 3 -> 3

\* HammerMarloweStroud(index): the if-chain assigns weights, bary and degree, its else
\* raises; self.points is assigned after the chain
HammerMarloweStroud(index) ==
  IF index \in HammerMarloweStroudIndices
  THEN Returned([class |-> "HammerMarloweStroud",
                 weights |-> concatenate(HammerMarloweStroudWeightParts(index)),
                 degree |-> HammerMarloweStroudDegree(index),
                 points |-> Columns123(concatenate(HammerMarloweStroudBaryParts(index)))])
  ELSE Raised([class |-> "HammerMarloweStroud"], "ValueError", "Illegal Hammer-Marlowe-Stroud index")

\* Yu.__init__: the indices of the table
YuIndices == {1, 2, 3, 4, 5}

\* Yu.__init__: the arrays concatenated into self.weights
YuWeightParts(index) ==
  CASE index = 1 ->
         << Times(Quarter, ones(4)) >>
    [] index = 2 ->
         << Times(Neg(<<0, 8000, 0, 0, 0, 0>>), ones(1)),
            Times(<<0, 4500, 0, 0, 0, 0>>, ones(4)) >>
    [] index = 3 ->
         << Times(<<0, 503, 7379, 4100, 1228, 2000>>, ones(4)),
            Times(<<0, 665, 4206, 8633, 2923, 9000>>, ones(12)) >>
    [] index = 4 ->
         << Times(<<0, 1884, 1855, 6736, 5411, 0>>, ones(1)),
            Times(<<0, 670, 3858, 3726, 427, 5000>>, ones(4)),
            Times(<<0, 452, 8559, 2363, 2739, 9000>>, ones(12)) >>
    [] index = 5 ->
         << Times(<<0, 904, 129, 460, 1475, 0>>, ones(1)),
            Times(<<0, 191, 1983, 4278, 9912, 4000>>, ones(4)),
            Times(<<0, 436, 1493, 8406, 6656, 8000>>, ones(12)),
            Times(<<0, 258, 1167, 5961, 9916, 1000>>, ones(12)) >>

\* Yu.__init__: the orbits concatenated into bary
YuBaryParts(index) ==
  CASE index = 1 ->
         << _s31(<<0, 1381, 9660, 1125, 150, 0>>) >>
    [] index = 2 ->
         << _s4,
            _s31(Frac(1, 6)) >>
    [] index = 3 ->
         << _s31(<<0, 761, 1903, 2644, 2543, 0>>),
            _s211(<<0, 4042, 3391, 3467, 2644, 0>>, <<0, 1197, 52, 7797, 8019, 0>>) >>
    [] index = 4 ->
         << _s4,
            _s31(<<0, 894, 5436, 4014, 1273, 3000>>),
            _s211(<<0, 4214, 3943, 1066, 2522, 0>>, <<0, 1325, 8109, 9938, 4657, 0>>) >>
    [] index = 5 ->
         << _s4,
            _s31(<<0, 574, 2691, 7317, 3568, 2000>>),
            _s211(<<0, 2312, 9854, 3651, 9147, 0>>, <<0, 513, 5188, 4125, 5634, 1000>>),
            _s211(<<0, 475, 6909, 8814, 7229, 0>>, <<0, 2967, 5381, 2969, 260, 0>>) >>

\* faulty variant of YuDegree: every degree is stated one too high
RaisedYuDegree(index) ==
  CASE index = 1 -> 3
    [] index = 2 -> 4
    [] index = 3 -> 5
    [] index = 4 -> 6
    [] index = 5 -> 7

\* Yu.__init__: self.degree
YuDegree(index) ==
  CASE index = 1 -> 2
    [] index = 2 -> 3
    [] index = 3 -> 4
    [] index = 4 -> 5
    [] index = 5 -> 6

\* Yu(index): the if-chain assigns weights, bary and degree, its else
\* raises; self.points is assigned after the chain
Yu(index) ==
  IF index \in YuIndices
  THEN Returned([class |-> "Yu",
                 weights |-> concatenate(YuWeightParts(index)),
                 degree |-> YuDegree(index),
                 points |-> Columns123(concatenate(YuBaryParts(index)))])
  ELSE Raised([class |-> "Yu"], "ValueError", "Illegal closed Yu index")

\* Keast.__init__: the indices of the table
KeastIndices == {0, 1, 2, 3, 4, 5, 6, 7, 8, 9, 10}

\* Keast.__init__: the arrays concatenated into self.weights
KeastWeightParts(index) ==
  CASE index = 0 ->
         << <<One>> >>
    [] index = 1 ->
         << Times(Quarter, ones(4)) >>
    [] index = 2 ->
         << Times(Neg(<<0, 8000, 0, 0, 0, 0>>), ones(1)),
            Times(<<0, 4500, 0, 0, 0, 0>>, ones(4)) >>
    [] index = 3 ->
         << Times(<<0, 2177, 6506, 9880, 4054, 0>>, ones(4)),
            Times(<<0, 214, 8995, 3413, 631, 0>>, ones(6)) >>
    [] index = 4 ->
         << Times(Frac(-148, 1875), ones(1)),
            Times(Frac(343, 7500), ones(4)),
            Times(Frac(56, 375), ones(6)) >>
    [] index = 5 ->
         << Times(Frac(2, 105), ones(6)),
            Times(<<0, 885, 8982, 4742, 9807, 0>>, ones(4)),
            Times(<<0, 1328, 3874, 6685, 5907, 0>>, ones(4)) >>
    [] index = 6 ->
         << Times(Frac(6544, 36015), ones(1)),
            Times(Frac(81, 2240), ones(4)),
            Times(Frac(161051, 2304960), ones(4)),
            Times(Frac(338, 5145), ones(6)) >>
    [] index = 7 ->
         << Times(<<0, 399, 2275, 258, 1679, 0>>, ones(4)),
            Times(<<0, 100, 7721, 1055, 3207, 0>>, ones(4)),
            Times(<<0, 553, 5718, 1543, 6544, 0>>, ones(4)),
            Times(Frac(27, 560), ones(12)) >>
    [] index = 8 ->
         << Times(<<0, 1095, 8534, 796, 6528, 0>>, ones(1)),
            Times(<<0, 635, 9964, 9146, 4850, 0>>, ones(4)),
            Times(Neg(<<0, 3751, 644, 685, 9797, 0>>), ones(4)),
            Times(<<0, 293, 4855, 1578, 4412, 0>>, ones(4)),
            Times(<<0, 58, 2010, 5820, 1058, 0>>, ones(6)),
            Times(<<0, 1653, 4391, 5343, 9105, 0>>, ones(12)) >>
    [] index = 9 ->
         << Times(Neg(<<0, 2359, 6203, 9847, 7557, 0>>), ones(1)),
            Times(<<0, 244, 8789, 6356, 562, 0>>, ones(4)),
            Times(<<0, 39, 4852, 639, 8261, 0>>, ones(4)),
            Times(<<0, 263, 555, 2950, 7371, 0>>, ones(6)),
            Times(<<0, 829, 8038, 3055, 589, 0>>, ones(6)),
            Times(<<0, 254, 4262, 4548, 1023, 0>>, ones(12)),
            Times(<<0, 134, 3243, 8437, 6852, 0>>, ones(12)) >>
    [] index = 10 ->
         << Times(Neg(<<0, 393, 2700, 6641, 2926, 1450>>), ones(1)),
            Times(<<0, 40, 8131, 6059, 3427, 525>>, ones(4)),
            Times(<<0, 6, 5808, 6773, 3043, 4194>>, ones(4)),
            Times(<<0, 43, 8425, 8825, 1228, 4693>>, ones(6)),
            Times(<<0, 138, 3006, 3842, 5098, 1660>>, ones(6)),
            Times(<<0, 42, 4043, 7424, 6837, 2453>>, ones(12)),
            Times(<<0, 22, 3873, 9739, 6142, 164>>, ones(12)) >>

\* faulty variant of KeastWeightScale: the factor is left out
NoWeightScale(index) == 1

\* Keast.__init__: the factor in front of numpy.concatenate
KeastWeightScale(index) ==
  IF index = 10 THEN 6 ELSE 1

\* Keast.__init__: the orbits concatenated into bary
KeastBaryParts(index) ==
  CASE index = 0 ->
         << _s4 >>
    [] index = 1 ->
         << _s31(<<0, 1381, 9660, 1125, 105, 0>>) >>
    [] index = 2 ->
         << _s4,
            _s31(Frac(1, 6)) >>
    [] index = 3 ->
         << _s31(<<0, 1438, 5647, 1934, 3852, 0>>),
            _s22(Half) >>
    [] index = 4 ->
         << _s4,
            _s31(Frac(1, 14)),
            _s22(<<0, 3994, 357, 6166, 7992, 0>>) >>
    [] index = 5 ->
         << _s22(Half),
            _s31(<<0, 1005, 2676, 5225, 2045, 0>>),
            _s31(<<0, 3143, 7287, 3493, 1922, 0>>) >>
    [] index = 6 ->
         << _s4,
            _s31(Frac(1, 3)),
            _s31(Frac(1, 11)),
            _s22(<<0, 665, 5015, 3573, 6643, 0>>) >>
    [] index = 7 ->
         << _s31(<<0, 2146, 287, 1259, 1517, 0>>),
            _s31(<<0, 406, 7395, 8534, 6113, 0>>),
            _s31(<<0, 3223, 3789, 142, 2757, 0>>),
            _s211(<<0, 636, 6100, 1875, 175, 0>>, <<0, 2696, 7233, 1458, 3159, 0>>) >>
    [] index = 8 ->
         << _s4,
            _s31(<<0, 782, 1319, 2330, 3186, 0>>),
            _s31(<<0, 1218, 4321, 6663, 9044, 0>>),
            _s31(<<0, 3325, 3916, 4446, 4206, 0>>),
            _s22(Half),
            _s211(<<0, 1000, 0, 0, 0, 0>>, <<0, 2000, 0, 0, 0, 0>>) >>
    [] index = 9 ->
         << _s4,
            _s31(<<0, 1274, 7093, 6566, 6390, 0>>),
            _s31(<<0, 320, 7883, 392, 6323, 0>>),
            _s22(<<0, 497, 7709, 5643, 2810, 0>>),
            _s22(<<0, 1837, 3044, 7398, 5499, 0>>),
            _s211(<<0, 2319, 108, 9397, 1509, 0>>, <<0, 5132, 8003, 3360, 8811, 0>>),
            _s211(<<0, 379, 7004, 8471, 8286, 0>>, <<0, 1937, 4647, 5248, 8044, 0>>) >>
    [] index = 10 ->
         << _s4,
            _s31(<<0, 1274, 7093, 6566, 6390, 1500>>),
            _s31(<<0, 320, 7883, 392, 6322, 9600>>),
            _s22(<<0, 497, 7709, 5643, 2810, 1850>>),
            _s22(<<0, 1837, 3044, 7398, 5499, 4500>>),
            _s211(<<0, 2319, 108, 9397, 1509, 600>>, <<0, 229, 1778, 7844, 8171, 1740>>),
            _s211(<<0, 379, 7004, 8471, 8286, 1020>>, <<0, 7303, 1342, 7807, 5383, 9600>>) >>

\* Keast.__init__: self.degree
KeastDegree(index) ==
  CASE index = 0 -> 1
    [] index = 1 -> 2
    [] index = 2 -> 3
    [] index = 3 -> 3
    [] index = 4 -> 4
    [] index = 5 -> 4
    [] index = 6 -> 5
    [] index = 7 -> 6
    [] index = 8 -> 7
    [] index = 9 -> 7
    [] index = 10 -> 8

\* Keast(index): the if-chain assigns weights, bary and degree, its else
\* raises; self.points is assigned after the chain
Keast(index) ==
  IF index \in KeastIndices
  THEN Returned([class |-> "Keast",
                 weights |-> Scale(KeastWeightScale(index), concatenate(KeastWeightParts(index))),
                 degree |-> KeastDegree(index),
                 points |-> Columns123(concatenate(KeastBaryParts(index)))])
  ELSE Raised([class |-> "Keast"], "ValueError", "Illegal Keast index")

\* LiuVinokur(8): alpha1
LiuVinokur8_alpha1 ==
  DivInt(Sub(Add(sqrt(Sub(FromInt(65944), MulInt(19446, sqrt(FromInt(11))))), MulInt(51, sqrt(FromInt(11)))), FromInt(154)), 89)

\* LiuVinokur(8): alpha2
LiuVinokur8_alpha2 ==
  DivInt(Sub(Add(Neg(sqrt(Sub(FromInt(65944), MulInt(19446, sqrt(FromInt(11)))))), MulInt(51, sqrt(FromInt(11)))), FromInt(154)), 89)

\* LiuVinokur(12): lmbda
LiuVinokur12_lmbda ==
  Mul(Frac(4, 27), Add(Mul(MulInt(4, sqrt(FromInt(79))), cos(DivInt(Add(arccos(DivInt(MulInt(67, sqrt(FromInt(79))), 24964)), MulInt(2, pi)), 3))), FromInt(71)))

\* LiuVinokur(12): alpha1
LiuVinokur12_alpha1_at(lmbda) ==
  Div(Sub(Add(sqrt(Add(Sub(MulInt(9, Mul(lmbda, lmbda)), MulInt(248, lmbda)), FromInt(1680))), FromInt(28)), MulInt(3, lmbda)), Sub(FromInt(112), MulInt(10, lmbda)))

LiuVinokur12_alpha1 == LiuVinokur12_alpha1_at(LiuVinokur12_lmbda)

\* LiuVinokur(12): alpha2
LiuVinokur12_alpha2_at(lmbda) ==
  Div(Sub(Add(Neg(sqrt(Add(Sub(MulInt(9, Mul(lmbda, lmbda)), MulInt(248, lmbda)), FromInt(1680)))), FromInt(28)), MulInt(3, lmbda)), Sub(FromInt(112), MulInt(10, lmbda)))

LiuVinokur12_alpha2 == LiuVinokur12_alpha2_at(LiuVinokur12_lmbda)

\* LiuVinokur(12): w1
LiuVinokur12_w1_at(lmbda, alpha1, alpha2) ==
  Div(Sub(Mul(Sub(FromInt(21), lmbda), alpha2), FromInt(7)), Mul(MulInt(420, Mul(alpha1, alpha1)), Sub(alpha2, alpha1)))

LiuVinokur12_w1 ==
  LiuVinokur12_w1_at(LiuVinokur12_lmbda, LiuVinokur12_alpha1, LiuVinokur12_alpha2)

\* LiuVinokur(12): w2
LiuVinokur12_w2_at(lmbda, alpha1, alpha2) ==
  Div(Sub(Mul(Sub(FromInt(21), lmbda), alpha1), FromInt(7)), Mul(MulInt(420, Mul(alpha2, alpha2)), Sub(alpha1, alpha2)))

LiuVinokur12_w2 ==
  LiuVinokur12_w2_at(LiuVinokur12_lmbda, LiuVinokur12_alpha1, LiuVinokur12_alpha2)

\* LiuVinokur.__init__: the indices of the table
LiuVinokurIndices == {1, 2, 3, 4, 5, 6, 7, 8, 9, 10, 11, 12, 13, 14}

\* LiuVinokur.__init__: the arrays concatenated into self.weights
LiuVinokurWeightParts(index) ==
  CASE index = 1 ->
         << Times(One, ones(1)) >>
    [] index = 2 ->
         << Times(Quarter, ones(4)) >>
    [] index = 3 ->
         << Times(Quarter, ones(4)) >>
    [] index = 4 ->
         << Times(<<0, 8000, 0, 0, 0, 0>>, ones(1)),
            Times(<<0, 500, 0, 0, 0, 0>>, ones(4)) >>
    [] index = 5 ->
         << Times(Neg(<<0, 8000, 0, 0, 0, 0>>), ones(1)),
            Times(<<0, 4500, 0, 0, 0, 0>>, ones(4)) >>
    [] index = 6 ->
         << Times(Frac(1, 40), ones(4)),
            Times(Frac(9, 40), ones(4)) >>
    [] index = 7 ->
         << Times(Frac(-148, 1875), ones(1)),
            Times(Frac(343, 7500), ones(4)),
            Times(Frac(56, 375), ones(6)) >>
    [] index = 8 ->
         << Times(Div(Sub(MulInt(17, LiuVinokur8_alpha2), FromInt(7)), Mul(MulInt(420, Mul(LiuVinokur8_alpha1, LiuVinokur8_alpha1)), Sub(LiuVinokur8_alpha2, LiuVinokur8_alpha1))), ones(4)),
            Times(Div(Sub(MulInt(17, LiuVinokur8_alpha1), FromInt(7)), Mul(MulInt(420, Mul(LiuVinokur8_alpha2, LiuVinokur8_alpha2)), Sub(LiuVinokur8_alpha1, LiuVinokur8_alpha2))), ones(4)),
            Times(Frac(2, 105), ones(6)) >>
    [] index = 9 ->
         << Times(Frac(-32, 15), ones(1)),
            Times(Frac(3, 280), ones(4)),
            Times(Frac(125, 168), ones(4)),
            Times(Frac(2, 105), ones(6)) >>
    [] index = 10 ->
         << Times(Frac(32, 105), ones(1)),
            Times(Frac(-31, 840), ones(4)),
            Times(Frac(27, 280), ones(4)),
            Times(Frac(4, 105), ones(12)) >>
    [] index = 11 ->
         << Times(DivInt(Sub(FromInt(11), MulInt(4, sqrt(FromInt(2)))), 840), ones(4)),
            Times(DivInt(Sub(FromInt(243), MulInt(108, sqrt(FromInt(2)))), 1960), ones(4)),
            Times(DivInt(Add(FromInt(62), MulInt(44, sqrt(FromInt(2)))), 735), ones(4)),
            Times(Frac(2, 105), ones(6)) >>
    [] index = 12 ->
         << Times(LiuVinokur12_w1, ones(4)),
            Times(LiuVinokur12_w2, ones(4)),
            Times(DivInt(Mul(LiuVinokur12_lmbda, LiuVinokur12_lmbda), 840), ones(6)) >>
    [] index = 13 ->
         << Times(Frac(-16, 21), ones(1)),
            Times(DivInt(Sub(FromInt(2249), MulInt(391, sqrt(FromInt(13)))), 10920), ones(4)),
            Times(DivInt(Add(FromInt(2249), MulInt(391, sqrt(FromInt(13)))), 10920), ones(4)),
            Times(Frac(2, 105), ones(6)) >>
    [] index = 14 ->
         << Times(Frac(16, 105), ones(1)),
            Times(Frac(1, 280), ones(4)),
            Times(Frac(81, 1400), ones(4)),
            Times(Frac(64, 525), ones(4)),
            Times(Frac(2, 105), ones(6)) >>

\* LiuVinokur.__init__: the orbits concatenated into bary
LiuVinokurBaryParts(index) ==
  CASE index = 1 ->
         << _s4 >>
    [] index = 2 ->
         << _r_alpha(One) >>
    [] index = 3 ->
         << _r_alpha(Div(One, sqrt(FromInt(5)))) >>
    [] index = 4 ->
         << _s4,
            _r_alpha(One) >>
    [] index = 5 ->
         << _s4,
            _r_alpha(Frac(1, 3)) >>
    [] index = 6 ->
         << _r_alpha(One),
            _r_alpha(Frac(-1, 3)) >>
    [] index = 7 ->
         << _s4,
            _r_alpha(Frac(5, 7)),
            _r_beta(DivInt(sqrt(FromInt(70)), 28)) >>
    [] index = 8 ->
         << _r_alpha(LiuVinokur8_alpha1),
            _r_alpha(LiuVinokur8_alpha2),
            _r_beta(Half) >>
    [] index = 9 ->
         << _s4,
            _r_alpha(One),
            _r_alpha(<<0, 2000, 0, 0, 0, 0>>),
            _r_beta(Half) >>
    [] index = 10 ->
         << _s4,
            _r_alpha(One),
            _r_alpha(Frac(-1, 3)),
            _r_gamma_delta(DivInt(Add(FromInt(2), sqrt(FromInt(2))), 4), DivInt(Sub(FromInt(2), sqrt(FromInt(2))), 4)) >>
    [] index = 11 ->
         << _r_alpha(One),
            _r_alpha(Frac(-1, 3)),
            _r_alpha(Sub(sqrt(FromInt(2)), One)),
            _r_beta(Half) >>
    [] index = 12 ->
         << _r_alpha(LiuVinokur12_alpha1),
            _r_alpha(LiuVinokur12_alpha2),
            _r_beta(Div(One, sqrt(LiuVinokur12_lmbda))) >>
    [] index = 13 ->
         << _s4,
            _r_alpha(DivInt(Add(FromInt(2), sqrt(FromInt(13))), 9)),
            _r_alpha(DivInt(Sub(FromInt(2), sqrt(FromInt(13))), 9)),
            _r_beta(Half) >>
    [] index = 14 ->
         << _s4,
            _r_alpha(One),
            _r_alpha(Frac(-1, 3)),
            _r_alpha(Half),
            _r_beta(Half) >>

\* LiuVinokur.__init__: self.degree
LiuVinokurDegree(index) ==
  CASE index = 1 -> 1
    [] index = 2 -> 1
    [] index = 3 -> 2
    [] index = 4 -> 2
    [] index = 5 -> 3
    [] index = 6 -> 3
    [] index = 7 -> 4
    [] index = 8 -> 4
    [] index = 9 -> 4
    [] index = 10 -> 4
    [] index = 11 -> 4
    [] index = 12 -> 5
    [] index = 13 -> 5
    [] index = 14 -> 5

\* LiuVinokur(index): the if-chain assigns weights, bary and degree, its else
\* raises; self.points is assigned after the chain
LiuVinokur(index) ==
  IF index \in LiuVinokurIndices
  THEN Returned([class |-> "LiuVinokur",
                 weights |-> concatenate(LiuVinokurWeightParts(index)),
                 degree |-> LiuVinokurDegree(index),
                 points |-> Columns123(concatenate(LiuVinokurBaryParts(index)))])
  ELSE Raised([class |-> "LiuVinokur"], "ValueError", "Illegal Liu-Vinokur index")

\* Zienkiewicz.__init__: the indices of the table
ZienkiewiczIndices == {4, 5}

\* Zienkiewicz.__init__: the arrays concatenated into self.weights
ZienkiewiczWeightParts(index) ==
  CASE index = 4 ->
         << Times(Quarter, ones(4)) >>
    [] index = 5 ->
         << Times(Neg(<<0, 8000, 0, 0, 0, 0>>), ones(1)),
            Times(<<0, 4500, 0, 0, 0, 0>>, ones(4)) >>

\* Zienkiewicz.__init__: the orbits concatenated into bary
ZienkiewiczBaryParts(index) ==
  CASE index = 4 ->
         << _s31(<<0, 1381, 9660, 1125, 105, 0>>) >>
    [] index = 5 ->
         << _s4,
            _s31(Frac(1, 6)) >>

\* Zienkiewicz.__init__: self.degree
ZienkiewiczDegree(index) ==
  CASE index = 4 -> 2
    [] index = 5 -> 3

\* Zienkiewicz(index): the if-chain assigns weights, bary and degree, its else
\* raises; self.points is assigned after the chain
Zienkiewicz(index) ==
  IF index \in ZienkiewiczIndices
  THEN Returned([class |-> "Zienkiewicz",
                 weights |-> concatenate(ZienkiewiczWeightParts(index)),
                 degree |-> ZienkiewiczDegree(index),
                 points |-> Columns123(concatenate(ZienkiewiczBaryParts(index)))])
  ELSE Raised([class |-> "Zienkiewicz"], "ValueError", "Illegal closed Newton-Cotes index")

\* ZhangCuiLiu.__init__: the indices of the table
ZhangCuiLiuIndices == {1, 2}

\* ZhangCuiLiu.__init__: the arrays concatenated into self.weights
ZhangCuiLiuWeightParts(index) ==
  CASE index = 1 ->
         << Times(<<0, 63, 9714, 7779, 9023, 2132>>, ones(4)),
            Times(<<0, 401, 9044, 8020, 9661, 7249>>, ones(4)),
            Times(<<0, 243, 797, 5504, 7703, 2117>>, ones(4)),
            Times(<<0, 548, 5889, 2413, 6974, 4047>>, ones(4)),
            Times(<<0, 357, 1961, 2234, 991, 8246>>, ones(6)),
            Times(<<0, 71, 8319, 697, 8525, 3941>>, ones(12)),
            Times(<<0, 163, 7218, 1945, 3191, 1754>>, ones(12)) >>
    [] index = 2 ->
         << Times(<<0, 40, 6511, 3665, 2707, 6704>>, ones(4)),
            Times(<<0, 22, 1453, 8533, 4455, 7814>>, ones(4)),
            Times(<<0, 58, 1343, 8267, 8884, 5055>>, ones(4)),
            Times(<<0, 196, 2554, 3385, 8357, 2160>>, ones(4)),
            Times(<<0, 3, 8757, 3790, 5908, 2144>>, ones(4)),
            Times(<<0, 116, 4297, 1972, 1770, 3699>>, ones(12)),
            Times(<<0, 52, 8904, 2988, 2817, 1313>>, ones(12)),
            Times(<<0, 18, 3108, 5416, 3600, 5594>>, ones(12)),
            Times(<<0, 82, 4964, 7377, 2146, 4521>>, ones(12)),
            Times(<<0, 30, 992, 4534, 7082, 4514>>, ones(24)),
            Times(<<0, 8, 471, 6561, 7367, 5346>>, ones(24)),
            Times(<<0, 29, 8504, 1258, 8493, 712>>, ones(24)),
            Times(<<0, 56, 8960, 241, 8760, 7670>>, ones(24)),
            Times(<<0, 41, 5908, 6587, 8545, 7157>>, ones(24)),
            Times(<<0, 7, 2823, 8920, 4572, 7244>>, ones(24)),
            Times(<<0, 54, 3265, 76, 9958, 2482>>, ones(24)) >>

\* ZhangCuiLiu.__init__: the orbits concatenated into bary
ZhangCuiLiuBaryParts(index) ==
  CASE index = 1 ->
         << _s31(<<0, 396, 7542, 3070, 3899, 127>>),
            _s31(<<0, 3144, 8780, 698, 963, 1378>>),
            _s31(<<0, 1019, 8669, 3062, 7033, 0>>),
            _s31(<<0, 1842, 369, 6949, 1915, 1228>>),
            _s22(<<0, 634, 3628, 7754, 5398, 9241>>),
            _s211(<<0, 216, 9016, 2067, 7280, 480>>, <<0, 7199, 3192, 2039, 4659, 3589>>),
            _s211(<<0, 2044, 8008, 636, 7957, 1424>>, <<0, 5805, 7719, 128, 8092, 2418>>) >>
    [] index = 2 ->
         << _s31(<<0, 3272, 5336, 2523, 8485, 6391>>),
            _s31(<<0, 447, 6130, 4466, 6850, 8088>>),
            _s31(<<0, 861, 4033, 1102, 4363, 5365>>),
            _s31(<<0, 2087, 6264, 2500, 4322, 9683>>),
            _s31(<<0, 141, 497, 3802, 9209, 6006>>),
            _s211(<<0, 1021, 6532, 4180, 7768, 1235>>, <<0, 5739, 4636, 7594, 3338, 2028>>),
            _s211(<<0, 4075, 7005, 1660, 107, 1572>>, <<0, 922, 2787, 139, 201, 3000>>),
            _s211(<<0, 156, 6400, 740, 2803, 5856>>, <<0, 7012, 8109, 5958, 9440, 3271>>),
            _s211(<<0, 2254, 9635, 6252, 5029, 538>>, <<0, 4769, 639, 7442, 887, 1159>>),
            _s1111(<<0, 3905, 9842, 8128, 1458, 0>>, <<0, 2013, 5905, 4412, 3922, 1681>>, <<0, 161, 1228, 8071, 300, 2986>>),
            _s1111(<<0, 1061, 3506, 7998, 9021, 4556>>, <<0, 327, 3581, 8681, 7269, 2849>>, <<0, 35, 9790, 7653, 7271, 6669>>),
            _s1111(<<0, 5636, 3837, 3169, 7743, 8969>>, <<0, 2302, 9207, 2230, 657, 4545>>, <<0, 1907, 1993, 4174, 3551, 8627>>),
            _s1111(<<0, 3676, 2550, 9532, 5860, 8441>>, <<0, 2078, 8513, 8023, 44, 9507>>, <<0, 3312, 1048, 8519, 3449, 0>>),
            _s1111(<<0, 7192, 3236, 8981, 7295, 2950>>, <<0, 1763, 2791, 1801, 9329, 7622>>, <<0, 207, 6023, 6257, 1310, 908>>),
            _s1111(<<0, 5278, 2499, 5215, 2987, 2984>>, <<0, 4372, 8908, 9220, 3418, 1655>>, <<0, 92, 2016, 5185, 6641, 9495>>),
            _s1111(<<0, 5483, 6745, 4494, 8190, 7290>>, <<0, 3447, 8155, 617, 1641, 2287>>, <<0, 867, 2172, 8332, 2215, 3946>>) >>

\* ZhangCuiLiu.__init__: self.degree
ZhangCuiLiuDegree(index) ==
  CASE index = 1 -> 8
    [] index = 2 -> 14

\* ZhangCuiLiu(index): the if-chain assigns weights, bary and degree, its else
\* raises; self.points is assigned after the chain
ZhangCuiLiu(index) ==
  IF index \in ZhangCuiLiuIndices
  THEN Returned([class |-> "ZhangCuiLiu",
                 weights |-> concatenate(ZhangCuiLiuWeightParts(index)),
                 degree |-> ZhangCuiLiuDegree(index),
                 points |-> Columns123(concatenate(ZhangCuiLiuBaryParts(index)))])
  ELSE Raised([class |-> "ZhangCuiLiu"], "ValueError", "Illegal Zhang index")

\* ShunnHam.__init__: the indices of the table
ShunnHamIndices == {1, 2, 3, 4, 5, 6}

\* ShunnHam.__init__: the arrays concatenated into self.weights
ShunnHamWeightParts(index) ==
  CASE index = 1 ->
         << <<One>> >>
    [] index = 2 ->
         << Times(Quarter, ones(4)) >>
    [] index = 3 ->
         << Times(<<0, 476, 3313, 4843, 2089, 0>>, ones(4)),
            Times(<<0, 1349, 1124, 3437, 8610, 0>>, ones(6)) >>
    [] index = 4 ->
         << Times(<<0, 70, 6707, 4794, 4695, 0>>, ones(4)),
            Times(<<0, 469, 9866, 8971, 8877, 0>>, ones(12)),
            Times(<<0, 1019, 3691, 8289, 8680, 0>>, ones(4)) >>
    [] index = 5 ->
         << Times(<<0, 21, 9004, 6396, 5388, 0>>, ones(4)),
            Times(<<0, 143, 3956, 7017, 7665, 0>>, ones(12)),
            Times(<<0, 250, 3053, 9568, 6746, 0>>, ones(6)),
            Times(<<0, 479, 8393, 3305, 7554, 0>>, ones(12)),
            Times(<<0, 931, 7457, 3119, 5340, 0>>, ones(1)) >>
    [] index = 6 ->
         << Times(<<0, 10, 3731, 1233, 6140, 0>>, ones(4)),
            Times(<<0, 96, 166, 4539, 9480, 0>>, ones(12)),
            Times(<<0, 164, 4939, 7679, 8232, 0>>, ones(12)),
            Times(<<0, 153, 7477, 6651, 3310, 0>>, ones(12)),
            Times(<<0, 293, 5201, 1837, 5230, 0>>, ones(12)),
            Times(<<0, 366, 2913, 6640, 5108, 0>>, ones(4)) >>

\* ShunnHam.__init__: the orbits concatenated into bary
ShunnHamBaryParts(index) ==
  CASE index = 1 ->
         << _s4 >>
    [] index = 2 ->
         << _s31(<<0, 1381, 9660, 1125, 110, 0>>) >>
    [] index = 3 ->
         << _s31(<<0, 738, 3490, 1726, 2234, 0>>),
            _s22(<<0, 937, 5565, 6115, 9491, 0>>) >>
    [] index = 4 ->
         << _s31(<<0, 323, 5259, 4727, 2439, 0>>),
            _s211(<<0, 603, 6044, 1525, 1421, 0>>, <<0, 2626, 8258, 3887, 7790, 0>>),
            _s31(<<0, 3097, 6930, 4272, 8620, 0>>) >>
    [] index = 5 ->
         << _s31(<<0, 267, 3677, 5554, 3735, 0>>),
            _s211(<<0, 391, 224, 635, 6488, 0>>, <<0, 7477, 5988, 8481, 8090, 0>>),
            _s22(<<0, 452, 4540, 15, 5172, 0>>),
            _s211(<<0, 2232, 103, 7962, 3150, 0>>, <<0, 504, 7927, 9060, 7720, 0>>),
            << <<Quarter, Quarter, Quarter, Quarter>> >> >>
    [] index = 6 ->
         << _s31(<<0, 149, 5206, 5153, 592, 0>>),
            _s211(<<0, 340, 9602, 1196, 2615, 0>>, <<0, 1518, 3194, 9165, 9370, 0>>),
            _s211(<<0, 462, 515, 415, 17, 0>>, <<0, 5526, 5564, 3106, 170, 0>>),
            _s211(<<0, 2281, 9046, 1068, 7610, 0>>, <<0, 55, 1475, 4974, 4775, 0>>),
            _s211(<<0, 3523, 526, 87, 9940, 0>>, <<0, 992, 572, 249, 4530, 0>>),
            _s31(<<0, 1344, 7833, 4792, 9940, 0>>) >>

\* ShunnHam.__init__: self.degree
ShunnHamDegree(index) ==
  CASE index = 1 -> 1
    [] index = 2 -> 2
    [] index = 3 -> 3
    [] index = 4 -> 5
    [] index = 5 -> 6
    [] index = 6 -> 7

\* ShunnHam(index): the if-chain assigns weights, bary and degree, its else
\* raises; self.points is assigned after the chain
ShunnHam(index) ==
  IF index \in ShunnHamIndices
  THEN Returned([class |-> "ShunnHam",
                 weights |-> concatenate(ShunnHamWeightParts(index)),
                 degree |-> ShunnHamDegree(index),
                 points |-> Columns123(concatenate(ShunnHamBaryParts(index)))])
  ELSE Raised([class |-> "ShunnHam"], "ValueError", "Illegal Shunn-Ham index")

---------------------------------------------------------------------------
(* Newton-Cotes schemes.  A polynomial in one variable is the sequence of  *)
(* its coefficients, lowest power first.                                   *)

\* the node placements: "closed" is lambda k, n: k / float(n), "open" is
\* lambda k, n: (k+1) / float(n+4)
point_fun(kind, k, n) ==
  IF kind = "closed"
  THEN IF n = 0 THEN NaN ELSE Frac(k, n)
  ELSE Frac(k + 1, n + 4)

\* math.factorial(n)
RECURSIVE factorial(_)
factorial(n) == IF n = 0 THEN 1 ELSE n * factorial(n - 1)

\* the multi-indices of the point table, in the order of the comprehension
\* for i in range(n+1) for j in range(n+1-i) for k in range(n+1-i-j)
PointIndex(n) ==
  concatenate([i \in 1..(n + 1) |->
    concatenate([j \in 1..(n + 2 - i) |->
      [k \in 1..(n + 3 - i - j) |->
        <<i - 1, j - 1, k - 1, n - (i - 1) - (j - 1) - (k - 1)>>]])])

\* faulty variant of WeightIndex: the loop runs backwards
ReversedWeightIndex(n) ==
  LET w == PointIndex(n) IN [t \in 1..Len(w) |-> w[Len(w) + 1 - t]]

\* the multi-indices (i, j, k, l) in the order of the weight loop
WeightIndex(n) ==
  concatenate([i \in 1..(n + 1) |->
    concatenate([j \in 1..(n + 2 - i) |->
      [k \in 1..(n + 3 - i - j) |->
        <<i - 1, j - 1, k - 1, n - (i - 1) - (j - 1) - (k - 1)>>]])])

\* p(t) * (a t + b)
PolyMulLinear(p, a, b) ==
  [q \in 1..(Len(p) + 1) |->
     Add(IF q <= Len(p) THEN Mul(b, p[q]) ELSE Zero,
         IF q >= 2 THEN Mul(a, p[q - 1]) ELSE Zero)]

\* p(t) * (t - pk) * a
PolyTimesScaled(p, pk, a) == PolyMulLinear(p, a, Mul(Neg(pk), a))

\* p(t) * (t - pk) / (pm - pk)
PolyTimesFactor(p, pk, pm) == PolyTimesScaled(p, pk, Div(One, Sub(pm, pk)))

\* the product of (t - point_fun(k, n)) / (point_fun(m, n) - point_fun(k, n))
\* over k in range(upto)
RECURSIVE PolyProd(_, _, _, _)
PolyProd(kind, m, n, upto) ==
  IF upto = 0 THEN <<One>>
  ELSE PolyTimesFactor(PolyProd(kind, m, n, upto - 1),
                       point_fun(kind, upto - 1, n), point_fun(kind, m, n))

\* get_poly(t, m, n)
get_poly(kind, m, n) == PolyProd(kind, m, n, m)

\* faulty variant of MonomialIntegral: the factor 6.0 is left out
UnscaledMonomialIntegral(c, m) ==
  Div(MulInt(factorial(m[1]) * factorial(m[2]) * factorial(m[3])
               * factorial(m[4]), c),
      FromInt(factorial(m[1] + m[2] + m[3] + m[4] + 3)))

\* the integral of the term c * t0^m0 t1^m1 t2^m2 t3^m3 of g, by
\* c * prod(m!) * 6.0 / factorial(sum(m) + 3)
MonomialIntegral(c, m) ==
  Div(MulInt(6 * factorial(m[1]) * factorial(m[2]) * factorial(m[3])
               * factorial(m[4]), c),
      FromInt(factorial(m[1] + m[2] + m[3] + m[4] + 3)))

\* the integral of g0(t[0]) g1(t[1]) g2(t[2]) g3(t[3]): the sum over the terms of
\* g = get_poly(t[0], i, n) * get_poly(t[1], j, n) * get_poly(t[2], k, n)
\*     * get_poly(t[3], l, n)
ProductIntegral(g0, g1, g2, g3) ==
  fsum([m0 \in 1..Len(g0) |->
    fsum([m1 \in 1..Len(g1) |->
      fsum([m2 \in 1..Len(g2) |->
        fsum([m3 \in 1..Len(g3) |->
          MonomialIntegral(
            Mul(Mul(Mul(g0[m0], g1[m1]), g2[m2]), g3[m3]),
            <<m0 - 1, m1 - 1, m2 - 1, m3 - 1>>)])])])])

\* weights[idx] for the multi-index ix
NewtonCotesWeight(kind, ix, n) ==
  ProductIntegral(get_poly(kind, ix[1], n), get_poly(kind, ix[2], n),
                  get_poly(kind, ix[3], n), get_poly(kind, ix[4], n))

\* _newton_cotes(n, point_fun): points, weights, degree
_newton_cotes(n, kind) ==
  LET idx == PointIndex(n)
      bary == [t \in 1..Len(idx) |->
                 [q \in 1..4 |-> point_fun(kind, idx[t][q], n)]]
      loop == WeightIndex(n)
  IN [points |-> Columns123(bary),
      weights |-> IF n = 0 THEN ones(1)
                  ELSE [t \in 1..Len(loop) |->
                          NewtonCotesWeight(kind, loop[t], n)],
      degree |-> n]

\* self.points, self.weights, self.degree = r
Unpacked(class, r) ==
  Returned([class |-> class, points |-> r.points, weights |-> r.weights,
            degree |-> r.degree])

NewtonCotesClosed(n) ==
  Unpacked("NewtonCotesClosed", _newton_cotes(n, "closed"))

NewtonCotesOpen(n) == Unpacked("NewtonCotesOpen", _newton_cotes(n, "open"))

---------------------------------------------------------------------------
(* Stroud's n-cube schemes.  _s, untangle and NCubeScheme are imported     *)
(* from modules outside the two source files; they are modelled from the   *)
(* specification: untangle flattens (weight, points) groups into parallel  *)
(* arrays, repeating each weight once per point of its group.              *)

\* numpy.full(n, v)
full(n, v) == [i \in 1..n |-> v]

\* _s(n, a, b): the n rows that place a among b's
_s(n, a, b) == [i \in 1..n |-> [q \in 1..n |-> IF q = i THEN a ELSE b]]

\* untangle(data) for data a sequence of <<weight, points>>
untangle(data) ==
  [points |-> concatenate([g \in 1..Len(data) |-> data[g][2]]),
   weights |-> concatenate([g \in 1..Len(data) |->
                              full(Len(data[g][2]), data[g][1])])]

\* NCubeScheme(name, dim, weights, points, degree, citation)
NCubeScheme(name, dim, weights, points, degree) ==
  [class |-> "NCubeScheme", name |-> name, dim |-> dim, weights |-> weights,
   points |-> points, degree |-> degree]

\* 2 ** n
RECURSIVE Pow2(_)
Pow2(n) == IF n = 0 THEN 1 ELSE 2 * Pow2(n - 1)

stroud_1957_2(n) ==
  LET r == DivInt(sqrt(FromInt(3)), 6)
      data == << <<One, <<full(n, MulInt(2, r))>> >>,
                 <<r, _s(n, FromInt(-1), r)>>,
                 <<Neg(r), _s(n, One, r)>> >>
      u == untangle(data)
      reference_volume == Pow2(n)
  IN NCubeScheme("Stroud 1957-2", n, Scale(reference_volume, u.weights),
                 u.points, 2)

\* Stroud3Row whose last row, for odd n, does not alternate in sign
Unsigned_Stroud3Row(n, q) ==
  LET n2 == IF n % 2 = 0 THEN n \div 2 ELSE (n - 1) \div 2
      k == (q + 1) \div 2
      angle(i) == DivInt(MulInt((2 * k - 1) * i, pi), n)
  IN [i \in 1..(2 * n) |->
        IF q <= 2 * n2
        THEN IF q % 2 = 1
             THEN Mul(sqrt(Frac(2, 3)), cos(angle(i)))
             ELSE Mul(sqrt(Frac(2, 3)), sin(angle(i)))
        ELSE Div(One, sqrt(FromInt(3)))]

\* row q of pts before the transposition, for i in i_range
Stroud3Row(n, q) ==
  LET n2 == IF n % 2 = 0 THEN n \div 2 ELSE (n - 1) \div 2
      k == (q + 1) \div 2
      angle(i) == DivInt(MulInt((2 * k - 1) * i, pi), n)
  IN [i \in 1..(2 * n) |->
        IF q <= 2 * n2
        THEN IF q % 2 = 1
             THEN Mul(sqrt(Frac(2, 3)), cos(angle(i)))
             ELSE Mul(sqrt(Frac(2, 3)), sin(angle(i)))
        ELSE IF i % 2 = 0
             THEN Neg(Div(One, sqrt(FromInt(3))))
             ELSE Div(One, sqrt(FromInt(3)))]

stroud_1957_3(n) ==
  LET pts == [i \in 1..(2 * n) |-> [q \in 1..n |-> Stroud3Row(n, q)[i]]]
      data == << <<Frac(1, 2 * n), pts>> >>
      u == untangle(data)
      reference_volume == Pow2(n)
  IN NCubeScheme("Stroud 1957-3", n, Scale(reference_volume, u.weights),
                 u.points, 3)

---------------------------------------------------------------------------
(* integrate(f, tetrahedron, scheme).  A tetrahedron is the sequence of    *)
(* its four vertices, each <<x, y, z>>.  The integrand f is a monomial     *)
(* x^a y^b z^c, given by its exponents <<a, b, c>>.                         *)

\* x ** e for an integer e >= 0 (the power 0 of anything is 1.0)
RECURSIVE Power(_, _)
Power(x, e) == IF e = 0 THEN One ELSE MulF(Power(x, e - 1), x)

\* the integrand at one point x = <<x0, x1, x2>>
Monomial(f, x) ==
  MulF(MulF(Power(x[1], f[1]), Power(x[2], f[2])), Power(x[3], f[3]))

\* faulty variant of MapPoint: the rebuilt coordinate goes to the last
\* vertex and the stored ones to the first three
LastVertexMapPoint(tetrahedron, xi) ==
  LET xi3 == SubF(SubF(SubF(One, xi[1]), xi[2]), xi[3])
  IN [c \in 1..3 |->
        AddF(AddF(AddF(MulF(tetrahedron[4][c], xi3),
                       MulF(tetrahedron[1][c], xi[1])),
                  MulF(tetrahedron[2][c], xi[2])),
             MulF(tetrahedron[3][c], xi[3]))]

\* column i of x: the image of the scheme's point xi
MapPoint(tetrahedron, xi) ==
  LET xi3 == SubF(SubF(SubF(One, xi[1]), xi[2]), xi[3])
  IN [c \in 1..3 |->
        AddF(AddF(AddF(MulF(tetrahedron[1][c], xi3),
                       MulF(tetrahedron[2][c], xi[1])),
                  MulF(tetrahedron[3][c], xi[2])),
             MulF(tetrahedron[4][c], xi[3]))]

\* det before and after det *= 1.0/6.0: six times the signed volume, and
\* the signed volume
Det(tetrahedron) ==
  LET J0 == [c \in 1..3 |-> Add(Neg(tetrahedron[1][c]), tetrahedron[2][c])]
      J1 == [c \in 1..3 |-> Add(Neg(tetrahedron[1][c]), tetrahedron[3][c])]
      J2 == [c \in 1..3 |-> Add(Neg(tetrahedron[1][c]), tetrahedron[4][c])]
  IN Sub(Sub(Sub(Add(Add(Mul(Mul(J0[1], J1[2]), J2[3]),
                         Mul(Mul(J1[1], J2[2]), J0[3])),
                     Mul(Mul(J2[1], J0[2]), J1[3])),
                 Mul(Mul(J0[3], J1[2]), J2[1])),
             Mul(Mul(J1[3], J2[2]), J0[1])),
         Mul(Mul(J2[3], J0[2]), J1[1]))

\* math.fsum of an array that may hold not-a-number
fsumF(v) ==
  LET values == v \o <<>>
  IN IF \E i \in 1..Len(values) : IsNaN(values[i]) THEN NaN
     ELSE fsum(values)

\* faulty variant of integrate: the sign of det is kept
SignedIntegrate(f, tetrahedron, scheme) ==
  LET det == Mul(Det(tetrahedron), Frac(1, 6))
  IN fsumF([i \in 1..Len(scheme.weights) |->
              MulF(MulF(scheme.weights[i],
                        Monomial(f, MapPoint(tetrahedron, scheme.points[i]))),
                   det)])

\* faulty variant of integrate: the factor abs(det) is left out
UnscaledIntegrate(f, tetrahedron, scheme) ==
  fsumF([i \in 1..Len(scheme.weights) |->
           MulF(scheme.weights[i],
                Monomial(f, MapPoint(tetrahedron, scheme.points[i])))])

integrate(f, tetrahedron, scheme) ==
  LET det == Mul(Det(tetrahedron), Frac(1, 6))
  IN fsumF([i \in 1..Len(scheme.weights) |->
              MulF(MulF(scheme.weights[i],
                        Monomial(f, MapPoint(tetrahedron, scheme.points[i]))),
                   Abs(det))])

---------------------------------------------------------------------------
(* The state machine.  call is the last call made, object the scheme       *)
(* object the last constructor call worked on (its class and the           *)
(* attributes assigned to it), result what the last call gave back.        *)

Init ==
  /\ call = [op |-> "none"]
  /\ object = [class |-> "none"]
  /\ result = [kind |-> "none"]

\* what a call that returns value leaves in result
Value(value) == [kind |-> "returned", value |-> value]

\* the largest numerator of a parameter k/4 handed to an orbit generator
MaxParam == 5

\* parameters of the orbit generators: the quarters from -MaxParam/4 to
\* MaxParam/4, a third, and the parameter of the four-point rule
Params ==
  {DivInt(FromInt(k), 4) : k \in (0 - MaxParam)..MaxParam}
    \cup {Frac(1, 3), <<0, 1381, 9660, 1125, 105, 0>>}

Call_s4 ==
  /\ call' = [op |-> "_s4", args |-> <<>>]
  /\ result' = Value(_s4)
  /\ UNCHANGED object

Call_s31 ==
  \E a \in Params :
    /\ call' = [op |-> "_s31", args |-> <<a>>]
    /\ result' = Value(_s31(a))
    /\ UNCHANGED object

Call_s22 ==
  \E a \in Params :
    /\ call' = [op |-> "_s22", args |-> <<a>>]
    /\ result' = Value(_s22(a))
    /\ UNCHANGED object

Call_s211 ==
  \E a, b \in Params :
    /\ call' = [op |-> "_s211", args |-> <<a, b>>]
    /\ result' = Value(_s211(a, b))
    /\ UNCHANGED object

Call_s1111 ==
  \E a, b, c \in Params :
    /\ call' = [op |-> "_s1111", args |-> <<a, b, c>>]
    /\ result' = Value(_s1111(a, b, c))
    /\ UNCHANGED object

Call_r ==
  \E r \in Params :
    /\ call' = [op |-> "_r", args |-> <<r>>]
    /\ result' = Value(_r(r))
    /\ UNCHANGED object

Call_r_alpha ==
  \E alpha \in Params :
    /\ call' = [op |-> "_r_alpha", args |-> <<alpha>>]
    /\ result' = Value(_r_alpha(alpha))
    /\ UNCHANGED object

Call_r_beta ==
  \E beta \in Params :
    /\ call' = [op |-> "_r_beta", args |-> <<beta>>]
    /\ result' = Value(_r_beta(beta))
    /\ UNCHANGED object

Call_r_gamma_delta ==
  \E gamma, delta \in Params :
    /\ call' = [op |-> "_r_gamma_delta", args |-> <<gamma, delta>>]
    /\ result' = Value(_r_gamma_delta(gamma, delta))
    /\ UNCHANGED object

\* one call of an orbit generator, with any parameters (the generators
\* read no state, so a second call would reach no other state)
NextOrbit ==
  /\ call.op = "none"
  /\ \/ Call_s4
     \/ Call_s31
     \/ Call_s22
     \/ Call_s211
     \/ Call_s1111
     \/ Call_r
     \/ Call_r_alpha
     \/ Call_r_beta
     \/ Call_r_gamma_delta

SpecOrbit == Init /\ [][NextOrbit]_vars

---------------------------------------------------------------------------
(* Properties of the orbit generators.                                     *)

\* the permutations of 1..4
Perms4 ==
  {s \in [1..4 -> 1..4] : \A i, j \in 1..4 : i # j => s[i] # s[j]}

\* all coordinate permutations of the row p
PermutationsOf(p) == {[i \in 1..4 |-> p[s[i]]] : s \in Perms4}

\* the pattern an orbit generator permutes
Pattern(op, args) ==
  CASE op = "_s4" -> <<Quarter, Quarter, Quarter, Quarter>>
    [] op = "_s31" ->
         <<args[1], args[1], args[1], Sub(One, MulInt(3, args[1]))>>
    [] op = "_s22" ->
         <<args[1], args[1], Sub(Half, args[1]), Sub(Half, args[1])>>
    [] op = "_s211" ->
         <<args[1], args[1], args[2],
           Sub(Sub(One, MulInt(2, args[1])), args[2])>>
    [] op = "_s1111" ->
         <<args[1], args[2], args[3],
           Sub(Sub(Sub(One, args[1]), args[2]), args[3])>>

\* the number of distinct permutations of a pattern with distinct values
OrbitSize(op) ==
  CASE op = "_s4" -> 1
    [] op = "_s31" -> 4
    [] op = "_s22" -> 6
    [] op = "_s211" -> 12
    [] op = "_s1111" -> 24

\* the values that the pattern names differently are pairwise distinct
PatternDistinct(op, p) ==
  CASE op = "_s4" -> TRUE
    [] op = "_s31" -> p[1] # p[4]
    [] op = "_s22" -> p[1] # p[3]
    [] op = "_s211" -> p[1] # p[3] /\ p[1] # p[4] /\ p[3] # p[4]
    [] op = "_s1111" -> \A i, j \in 1..4 : i # j => p[i] # p[j]

Rows(value) == {value[i] : i \in 1..Len(value)}

\* C7: each of _s4, _s31, _s22, _s211 and _s1111 returns 1, 4, 6, 12 and
\* 24 rows, which are exactly the coordinate permutations of its pattern
\* (none missing, none foreign); when the pattern's values are pairwise
\* distinct no row is repeated.
C7_OrbitIsAllPermutations ==
  call.op \in {"_s4", "_s31", "_s22", "_s211", "_s1111"} =>
    LET rows == result.value
        p == Pattern(call.op, call.args)
    IN /\ result.kind = "returned"
       /\ Len(rows) = OrbitSize(call.op)
       /\ Rows(rows) = PermutationsOf(p)
       /\ (PatternDistinct(call.op, p) =>
             \A i, j \in 1..Len(rows) : i # j => rows[i] # rows[j])

\* _s1111 was called with four pairwise distinct values and returned 24
\* pairwise distinct rows
C7_Witness ==
  /\ call.op = "_s1111"
  /\ PatternDistinct("_s1111", Pattern("_s1111", call.args))
  /\ Len(result.value) = 24
  /\ Cardinality(Rows(result.value)) = 24

\* the sum of the coordinates of a row
RowSum(row) == Add(Add(Add(row[1], row[2]), row[3]), row[4])

\* C8: for every parameter value, also outside (0,1), _s31, _s22, _s211,
\* _s1111, _r, _r_alpha, _r_beta and _r_gamma_delta return (they never
\* raise), and every row returned has four coordinates that sum to 1.
C8_RowsSumToOne ==
  call.op \in {"_s31", "_s22", "_s211", "_s1111",
               "_r", "_r_alpha", "_r_beta", "_r_gamma_delta"} =>
    /\ result.kind = "returned"
    /\ \A i \in 1..Len(result.value) :
         /\ Len(result.value[i]) = 4
         /\ Close(RowSum(result.value[i]), One)

\* _r_gamma_delta was called with a parameter above 1 and one below 0 and
\* returned rows with a negative coordinate
C8_Witness ==
  /\ call.op = "_r_gamma_delta"
  /\ Less(One, call.args[1])
  /\ IsNeg(call.args[2])
  /\ result.kind = "returned"
  /\ \E i \in 1..Len(result.value) : \E q \in 1..4 : IsNeg(result.value[i][q])

---------------------------------------------------------------------------
(* Constructor calls.                                                      *)

\* the largest index handed to a constructor of a tabulated family
MaxIndex == 15

\* the largest order handed to the Newton-Cotes constructors
MaxN == 4

\* the largest dimension handed to the n-cube schemes
MaxDim == 4

\* indices inside and outside every table
Indices == (0 - 1)..MaxIndex

\* the constructor op was called with arg and ended as r tells
Constructed(op, arg, r) ==
  /\ call' = [op |-> op, args |-> <<arg>>]
  /\ object' = r.self
  /\ result' = IF r.raised = "" THEN [kind |-> "returned"]
               ELSE [kind |-> "raised", error |-> r.raised,
                     message |-> r.message]

ConstructHammerMarloweStroud ==
  \E index \in Indices :
    Constructed("HammerMarloweStroud", index, HammerMarloweStroud(index))

ConstructYu == \E index \in Indices : Constructed("Yu", index, Yu(index))

ConstructKeast ==
  \E index \in Indices : Constructed("Keast", index, Keast(index))

ConstructLiuVinokur ==
  \E index \in Indices : Constructed("LiuVinokur", index, LiuVinokur(index))

ConstructZienkiewicz ==
  \E index \in Indices : Constructed("Zienkiewicz", index, Zienkiewicz(index))

ConstructZhangCuiLiu ==
  \E index \in Indices : Constructed("ZhangCuiLiu", index, ZhangCuiLiu(index))

ConstructShunnHam ==
  \E index \in Indices : Constructed("ShunnHam", index, ShunnHam(index))

ConstructNewtonCotesClosed ==
  \E n \in 0..MaxN : Constructed("NewtonCotesClosed", n, NewtonCotesClosed(n))

ConstructNewtonCotesOpen ==
  \E n \in 0..MaxN : Constructed("NewtonCotesOpen", n, NewtonCotesOpen(n))

CallStroud2 ==
  \E n \in 1..MaxDim :
    Constructed("stroud_1957_2", n, Returned(stroud_1957_2(n)))

CallStroud3 ==
  \E n \in 1..MaxDim :
    Constructed("stroud_1957_3", n, Returned(stroud_1957_3(n)))

\* a constructor of a tetrahedron scheme is called
ConstructTetrahedronScheme ==
  \/ ConstructHammerMarloweStroud
  \/ ConstructYu
  \/ ConstructKeast
  \/ ConstructLiuVinokur
  \/ ConstructZienkiewicz
  \/ ConstructZhangCuiLiu
  \/ ConstructShunnHam
  \/ ConstructNewtonCotesClosed
  \/ ConstructNewtonCotesOpen

\* one scheme is constructed, with any index, order or dimension
NextConstruct ==
  /\ call.op = "none"
  /\ \/ ConstructTetrahedronScheme
     \/ CallStroud2
     \/ CallStroud3

SpecConstruct == Init /\ [][NextConstruct]_vars

---------------------------------------------------------------------------
(* Properties of the constructed schemes.                                  *)

Families ==
  {"HammerMarloweStroud", "Yu", "Keast", "LiuVinokur", "Zienkiewicz",
   "ZhangCuiLiu", "ShunnHam"}

\* the arrays a family concatenates into self.weights at an index
WeightPartsOf(class, index) ==
  CASE class = "HammerMarloweStroud" -> HammerMarloweStroudWeightParts(index)
    [] class = "Yu" -> YuWeightParts(index)
    [] class = "Keast" -> KeastWeightParts(index)
    [] class = "LiuVinokur" -> LiuVinokurWeightParts(index)
    [] class = "Zienkiewicz" -> ZienkiewiczWeightParts(index)
    [] class = "ZhangCuiLiu" -> ZhangCuiLiuWeightParts(index)
    [] class = "ShunnHam" -> ShunnHamWeightParts(index)

\* the orbits a family concatenates into bary at an index
BaryPartsOf(class, index) ==
  CASE class = "HammerMarloweStroud" -> HammerMarloweStroudBaryParts(index)
    [] class = "Yu" -> YuBaryParts(index)
    [] class = "Keast" -> KeastBaryParts(index)
    [] class = "LiuVinokur" -> LiuVinokurBaryParts(index)
    [] class = "Zienkiewicz" -> ZienkiewiczBaryParts(index)
    [] class = "ZhangCuiLiu" -> ZhangCuiLiuBaryParts(index)
    [] class = "ShunnHam" -> ShunnHamBaryParts(index)

\* the table of each family, as the specification states it
StatedTable(class) ==
  CASE class = "HammerMarloweStroud" -> 1..3
    [] class = "Yu" -> 1..5
    [] class = "Keast" -> 0..10
    [] class = "LiuVinokur" -> 1..14
    [] class = "Zienkiewicz" -> {4, 5}
    [] class = "ZhangCuiLiu" -> {1, 2}
    [] class = "ShunnHam" -> 1..6

\* a constructor of a tabulated family was called with an index of its table
ValidCall == call.op \in Families /\ call.args[1] \in StatedTable(call.op)

\* the sum over the groups of group weight * orbit size; the first entry of
\* a weight part is the group's weight
GroupSum(class, index) ==
  LET w == WeightPartsOf(class, index)
      b == BaryPartsOf(class, index)
  IN fsum([g \in 1..Len(w) |-> MulInt(Len(b[g]), w[g][1])])

\* C2: the weights of every constructed scheme sum to the reference volume,
\* to within Tol: for every tetrahedron family and valid index the weights,
\* and the sum over groups of group weight * orbit size (times the factor
\* in front of the concatenation), sum to 1; for stroud_1957_2(n) and
\* stroud_1957_3(n), n >= 1, the rescaled weights sum to 2^n.
C2_WeightsSumToVolume ==
  /\ ValidCall =>
       /\ result.kind = "returned"
       /\ Close(fsum(object.weights), One)
       /\ Close(MulInt(IF call.op = "Keast" /\ call.args[1] = 10 THEN 6 ELSE 1,
                       GroupSum(call.op, call.args[1])), One)
  /\ call.op \in {"stroud_1957_2", "stroud_1957_3"} =>
       Close(fsum(object.weights), FromInt(Pow2(call.args[1])))

\* Keast(10), whose weights are scaled by 6, was constructed with 45
\* weights, some of them negative
C2_Witness ==
  /\ call.op = "Keast"
  /\ call.args = <<10>>
  /\ result.kind = "returned"
  /\ Len(object.weights) = 45
  /\ IsNeg(object.weights[1])

\* C3: for every tabulated family and valid index len(weights) equals
\* len(points), because the weight arrays w * numpy.ones(k) match the
\* orbits of the point table group by group, in number and in order.
C3_WeightsMatchPoints ==
  ValidCall =>
    LET w == WeightPartsOf(call.op, call.args[1])
        b == BaryPartsOf(call.op, call.args[1])
    IN /\ Len(object.weights) = Len(object.points)
       /\ Len(w) = Len(b)
       /\ \A g \in 1..Len(w) : Len(w[g]) = Len(b[g])
       /\ Len(object.weights) = Len(concatenate(w))
       /\ Len(object.points) = Len(concatenate(b))

\* ZhangCuiLiu(2) was constructed from 16 groups with 236 weights and points
C3_Witness ==
  /\ call.op = "ZhangCuiLiu"
  /\ call.args = <<2>>
  /\ Len(ZhangCuiLiuWeightParts(2)) = 16
  /\ Len(object.weights) = 236
  /\ Len(object.points) = 236

\* C4: a constructor of a tabulated family called with an index outside its
\* table raises ValueError, and the object has no weights, points or
\* degree: nothing was assigned and no other rule was used instead.
C4_InvalidIndexRaises ==
  (call.op \in Families /\ call.args[1] \notin StatedTable(call.op)) =>
    /\ result.kind = "raised"
    /\ result.error = "ValueError"
    /\ DOMAIN object = {"class"}

\* Keast(11) raised and left an object without attributes
C4_Witness ==
  /\ call.op = "Keast"
  /\ call.args = <<11>>
  /\ result.kind = "raised"
  /\ result.message = "Illegal Keast index"
  /\ "weights" \notin DOMAIN object

NewtonCotes == {"NewtonCotesClosed", "NewtonCotesOpen"}

\* the node placement of a Newton-Cotes class
KindOf(class) == IF class = "NewtonCotesClosed" THEN "closed" ELSE "open"

\* C9: _newton_cotes(0, point_fun) returns the single weight 1, and for
\* every order n >= 1 and both node placements the weights sum to 1, to
\* within Tol.
C9_NewtonCotesWeightsSumToOne ==
  call.op \in NewtonCotes =>
    IF call.args[1] = 0
    THEN object.weights = <<One>>
    ELSE Close(fsum(object.weights), One)

\* NewtonCotesOpen(4) was constructed with 35 weights, some negative,
\* summing to 1
C9_Witness ==
  /\ call.op = "NewtonCotesOpen"
  /\ call.args = <<4>>
  /\ Len(object.weights) = 35
  /\ \E t \in 1..35 : IsNeg(object.weights[t])
  /\ Close(fsum(object.weights), One)

\* the multi-indices (i, j, k, l) of non-negative integers with sum n
MultiIndices(n) ==
  {m \in [1..4 -> 0..n] : m[1] + m[2] + m[3] + m[4] = n}

\* C10: for every order n, _newton_cotes enumerates each multi-index
\* (i,j,k,l) with i+j+k+l = n exactly once, giving (n+1)(n+2)(n+3)/6
\* points; the weight loop visits them in the order of the point table, so
\* that weights[t] is the weight of points[t] and len(weights) equals
\* len(points); the degree is n.
C10_NewtonCotesEnumeration ==
  call.op \in NewtonCotes =>
    LET n == call.args[1]
        kind == KindOf(call.op)
        count == ((n + 1) * (n + 2) * (n + 3)) \div 6
        idx == PointIndex(n)
    IN /\ Len(idx) = count
       /\ Rows(idx) = MultiIndices(n)
       /\ Cardinality(MultiIndices(n)) = count
       /\ WeightIndex(n) = idx
       /\ Len(object.points) = count
       /\ Len(object.weights) = count
       /\ object.degree = n
       /\ \A t \in 1..count :
            /\ object.points[t] = <<point_fun(kind, idx[t][2], n),
                                    point_fun(kind, idx[t][3], n),
                                    point_fun(kind, idx[t][4], n)>>
            /\ n >= 1 =>
                 object.weights[t] = NewtonCotesWeight(kind, idx[t], n)

\* NewtonCotesClosed(3) was constructed with 20 points and weights
C10_Witness ==
  /\ call.op = "NewtonCotesClosed"
  /\ call.args = <<3>>
  /\ Len(object.points) = 20
  /\ Len(object.weights) = 20
  /\ object.degree = 3

---------------------------------------------------------------------------
(* Calls of integrate.                                                     *)

\* the constructor call that made the scheme now in object
SchemeId ==
  IF call.op = "integrate" THEN call.scheme ELSE <<call.op, call.args[1]>>

\* a constructor of a tetrahedron scheme has returned its object
SchemeConstructed ==
  /\ call.op \in Families \cup NewtonCotes
  /\ result.kind = "returned"

\* integrate(f, tetrahedron, scheme) with the scheme in object
Integrate(f, tetrahedron) ==
  /\ {"weights", "points"} \subseteq DOMAIN object
  /\ call' = [op |-> "integrate", f |-> f, tetrahedron |-> tetrahedron,
              scheme |-> SchemeId]
  /\ result' = Value(integrate(f, tetrahedron, object))
  /\ UNCHANGED object

\* [(0,0,0), (1,0,0), (0,1,0), (0,0,1)]
ReferenceTetrahedron ==
  << <<Zero, Zero, Zero>>, <<One, Zero, Zero>>, <<Zero, One, Zero>>,
     <<Zero, Zero, One>> >>

\* the exponents <<a, b, c>> of the monomials of total degree up to d
MonomialsUpTo(d) ==
  {f \in (0..d) \X (0..d) \X (0..d) : f[1] + f[2] + f[3] <= d}

\* a scheme is constructed and integrates, over the reference tetrahedron,
\* one monomial of a degree up to its own
NextExact ==
  \/ call.op = "none" /\ ConstructTetrahedronScheme
  \/ /\ SchemeConstructed
     /\ \E f \in MonomialsUpTo(object.degree) :
          Integrate(f, ReferenceTetrahedron)

SpecExact == Init /\ [][NextExact]_vars

\* the number of vertices tetrahedra are built from
MaxVertex == 5

\* vertex k: the four vertices of the reference tetrahedron, then points
\* off the lattice planes
Vertex(k) ==
  CASE k = 1 -> <<Zero, Zero, Zero>>
    [] k = 2 -> <<One, Zero, Zero>>
    [] k = 3 -> <<Zero, One, Zero>>
    [] k = 4 -> <<Zero, Zero, One>>
    [] OTHER -> <<DivInt(FromInt(3 * (k - 4)), 2), DivInt(FromInt(4 - k), 2),
                  FromInt(k - 3)>>

\* the tetrahedra with four different vertices, in every order
Tetrahedra ==
  {<<Vertex(t[1]), Vertex(t[2]), Vertex(t[3]), Vertex(t[4])>> :
     t \in {u \in [1..4 -> 1..MaxVertex] :
              \A i, j \in 1..4 : i # j => u[i] # u[j]}}

\* a scheme is constructed and integrates the constant 1 over a tetrahedron
NextVolume ==
  \/ call.op = "none" /\ ConstructTetrahedronScheme
  \/ /\ SchemeConstructed
     /\ \E tetrahedron \in Tetrahedra : Integrate(<<0, 0, 0>>, tetrahedron)

SpecVolume == Init /\ [][NextVolume]_vars

---------------------------------------------------------------------------
(* Properties of integrate.                                                *)

\* x / (lo (lo+1) ... hi)
RECURSIVE DivRange(_, _, _)
DivRange(x, lo, hi) ==
  IF lo > hi THEN x ELSE DivRange(DivInt(x, lo), lo + 1, hi)

\* a! b! c! / (a+b+c+3)!, the integral of x^a y^b z^c over the reference
\* tetrahedron: the factorial of the largest exponent is cancelled, so
\* that the integers stay small
ExactIntegral(f) ==
  LET top == IF f[1] >= f[2] /\ f[1] >= f[3] THEN 1
             ELSE IF f[2] >= f[3] THEN 2 ELSE 3
      rest == IF top = 1 THEN factorial(f[2]) * factorial(f[3])
              ELSE IF top = 2 THEN factorial(f[1]) * factorial(f[3])
              ELSE factorial(f[1]) * factorial(f[2])
  IN DivRange(FromInt(rest), f[top] + 1, f[1] + f[2] + f[3] + 3)

\* the sum over the points of weight * xi0^a * xi1^b * xi2^c
WeightedSum(scheme, f) ==
  fsumF([i \in 1..Len(scheme.weights) |->
           MulF(scheme.weights[i], Monomial(f, scheme.points[i]))])

\* C1: for every tetrahedron scheme (every family and valid index, both
\* Newton-Cotes families at every order) of stated degree d and every
\* monomial x^a y^b z^c with a+b+c <= d, integrate over the reference
\* tetrahedron returns a! b! c! / (a+b+c+3)!, and the sum over the points
\* of weight * xi0^a xi1^b xi2^c is 6 a! b! c! / (a+b+c+3)!, to within Tol.
C1_ExactUpToDegree ==
  (/\ call.op = "integrate"
   /\ call.tetrahedron = ReferenceTetrahedron
   /\ call.f[1] + call.f[2] + call.f[3] <= object.degree) =>
    /\ Close(result.value, ExactIntegral(call.f))
    /\ Close(WeightedSum(object, call.f), MulInt(6, ExactIntegral(call.f)))

\* ZhangCuiLiu(2), of degree 14, has integrated x^5 y^5 z^4 over the
\* reference tetrahedron and returned 5! 5! 4! / 17!
C1_Witness ==
  /\ call.op = "integrate"
  /\ call.scheme = <<"ZhangCuiLiu", 2>>
  /\ call.tetrahedron = ReferenceTetrahedron
  /\ call.f = <<5, 5, 4>>
  /\ object.degree = 14
  /\ Close(result.value, ExactIntegral(<<5, 5, 4>>))
  /\ Less(Zero, result.value)

\* the volume of a tetrahedron, from the triple product
\* (v1 - v0) . ((v2 - v0) x (v3 - v0))
Volume(t) ==
  LET a == [c \in 1..3 |-> Sub(t[2][c], t[1][c])]
      b == [c \in 1..3 |-> Sub(t[3][c], t[1][c])]
      c == [q \in 1..3 |-> Sub(t[4][q], t[1][q])]
      triple ==
        Add(Add(Mul(a[1], Sub(Mul(b[2], c[3]), Mul(b[3], c[2]))),
                Mul(a[2], Sub(Mul(b[3], c[1]), Mul(b[1], c[3])))),
            Mul(a[3], Sub(Mul(b[1], c[2]), Mul(b[2], c[1]))))
  IN DivInt(IF IsNeg(triple) THEN Neg(triple) ELSE triple, 6)

\* C5: for every scheme and every non-degenerate tetrahedron v0..v3,
\* integrate of the constant 1 returns |det(v1-v0, v2-v0, v3-v0)| / 6, to
\* within Tol; Keast(0) on the reference tetrahedron returns 1/6.
C5_ConstantGivesVolume ==
  (call.op = "integrate" /\ call.f = <<0, 0, 0>>) =>
    /\ Volume(call.tetrahedron) # Zero =>
         Close(result.value, Volume(call.tetrahedron))
    /\ (call.scheme = <<"Keast", 0>>
          /\ call.tetrahedron = ReferenceTetrahedron) =>
         result.value = Frac(1, 6)

\* ZhangCuiLiu(2) has integrated 1 over a tetrahedron of negative
\* orientation with a vertex off the lattice and returned its volume
C5_Witness ==
  /\ call.op = "integrate"
  /\ call.f = <<0, 0, 0>>
  /\ call.scheme = <<"ZhangCuiLiu", 2>>
  /\ call.tetrahedron[4] = Vertex(5)
  /\ IsNeg(Det(call.tetrahedron))
  /\ Less(Zero, result.value)
  /\ Close(result.value, Volume(call.tetrahedron))

\* the constructions of the degree-2 four-point rule
FourPointRules ==
  {<<"Keast", 1>>, <<"Yu", 1>>, <<"Zienkiewicz", 4>>, <<"ShunnHam", 2>>}

\* the rounding of the four products and of the determinant's factor 1/6:
\* ten units of the last place
Rounding == <<0, 0, 0, 0, 0, 10>>

\* C6: Keast(1), Yu(1), Zienkiewicz(4) and ShunnHam(2) build four weights
\* 1/4 on the orbit _s31(a), a ~ 0.1381966, and integrating the monomial x
\* over the reference tetrahedron with them returns 1/24 (to the last
\* places of the arithmetic).
C6_FourPointRuleIntegratesX ==
  (/\ call.op = "integrate"
   /\ call.scheme \in FourPointRules
   /\ call.tetrahedron = ReferenceTetrahedron
   /\ call.f = <<1, 0, 0>>) =>
    /\ object.weights = <<Quarter, Quarter, Quarter, Quarter>>
    /\ \E a \in {<<0, 1381, 9660, 1125, 105, 0>>,
                 <<0, 1381, 9660, 1125, 150, 0>>,
                 <<0, 1381, 9660, 1125, 110, 0>>} :
         object.points = Columns123(_s31(a))
    /\ CloseWithin(result.value, Frac(1, 24), Rounding)

\* Yu(1) has integrated x over the reference tetrahedron and returned 1/24
C6_Witness ==
  /\ call.op = "integrate"
  /\ call.scheme = <<"Yu", 1>>
  /\ call.tetrahedron = ReferenceTetrahedron
  /\ call.f = <<1, 0, 0>>
  /\ Len(object.weights) = 4
  /\ CloseWithin(result.value, Frac(1, 24), Rounding)

---------------------------------------------------------------------------
(* Node coordinates of the Newton-Cotes schemes.                           *)

\* a number (not NaN) in [0, 1]
InUnitInterval(x) == ~IsNaN(x) /\ Leq(Zero, x) /\ Leq(x, One)

\* bary = point_fun(idx, n): the four coordinates of every generated point
NewtonCotesBary(class, n) ==
  LET idx == PointIndex(n)
  IN [t \in 1..Len(idx) |->
        [q \in 1..4 |-> point_fun(KindOf(class), idx[t][q], n)]]

\* C11: for every order n >= 0 and both node placements, every coordinate
\* point_fun(k, n) of every generated point is a number in [0, 1], the
\* stored point is columns 1..3 of it, and the four coordinates of each
\* point sum to 1 (to within Tol).  As stated, for n = 0 included, this
\* fails: NewtonCotesClosed(0) divides 0 by float(0).
C11_NodesInUnitInterval ==
  call.op \in NewtonCotes =>
    LET bary == NewtonCotesBary(call.op, call.args[1])
    IN /\ Len(object.points) = Len(bary)
       /\ \A t \in 1..Len(bary) :
            /\ object.points[t] = <<bary[t][2], bary[t][3], bary[t][4]>>
            /\ \A q \in 1..4 : InUnitInterval(bary[t][q])
            /\ Close(RowSum(bary[t]), One)

\* the same for every order n >= 1 of the closed placement and every order
\* n >= 0 of the open placement
C11_NodesInUnitIntervalFromOrderOne ==
  (call.op = "NewtonCotesClosed" => call.args[1] >= 1) =>
    C11_NodesInUnitInterval

\* NewtonCotesClosed(0) was constructed: its single point is (nan, nan, nan)
C11_ClosedOrderZeroIsNaN ==
  /\ call.op = "NewtonCotesClosed"
  /\ call.args = <<0>>
  /\ Len(object.points) = 1
  /\ \A q \in 1..3 : IsNaN(object.points[1][q])

---------------------------------------------------------------------------
(* Point placement of stroud_1957_3.                                       *)

\* (2k-1) i pi / n
Stroud3Angle(n, k, i) == DivInt(MulInt((2 * k - 1) * i, pi), n)

\* x*x + y*y
SquareSum(x, y) == Add(Mul(x, x), Mul(y, y))

\* C12: for every dimension n >= 1, stroud_1957_3(n) returns 2n points of
\* n coordinates each and 2n equal weights 2^n / (2n) (to within Tol);
\* coordinates 2k-1 and 2k of point i, for k = 1..floor(n/2), are
\* sqrt(2/3) cos((2k-1) i pi / n) and sqrt(2/3) sin((2k-1) i pi / n), a
\* pair on the circle of squared radius 2/3; for odd n and only then one
\* more coordinate follows, +1/sqrt(3) for odd i and -1/sqrt(3) for even
\* i; for even n the pairs are all the coordinates.  The degree is 3.
C12_Stroud3Placement ==
  call.op = "stroud_1957_3" =>
    LET n == call.args[1]
        n2 == n \div 2
        a == sqrt(Frac(2, 3))
        d == Div(One, sqrt(FromInt(3)))
    IN /\ Len(object.points) = 2 * n
       /\ Len(object.weights) = 2 * n
       /\ object.degree = 3
       /\ object.dim = n
       /\ ~IsNeg(d) /\ Close(Mul(d, d), Frac(1, 3))
       /\ \A i \in 1..(2 * n) :
            /\ DOMAIN object.points[i] = 1..n
            /\ object.weights[i] = object.weights[1]
            /\ Close(object.weights[i], DivInt(FromInt(Pow2(n)), 2 * n))
            /\ \A k \in 1..n2 :
                 /\ object.points[i][2 * k - 1]
                      = Mul(a, cos(Stroud3Angle(n, k, i)))
                 /\ object.points[i][2 * k]
                      = Mul(a, sin(Stroud3Angle(n, k, i)))
                 /\ Close(SquareSum(object.points[i][2 * k - 1],
                                    object.points[i][2 * k]), Frac(2, 3))
            /\ IF n % 2 = 1
               THEN /\ n = 2 * n2 + 1
                    /\ object.points[i][n] = (IF i % 2 = 1 THEN d ELSE Neg(d))
               ELSE n = 2 * n2

\* stroud_1957_3(3) returned 6 points of 3 coordinates, one (cos, sin)
\* pair and a last coordinate that is positive for point 1 and negative
\* for point 2, with weights 8/6
C12_Witness ==
  /\ call.op = "stroud_1957_3"
  /\ call.args = <<3>>
  /\ Len(object.points) = 6
  /\ DOMAIN object.points[2] = 1..3
  /\ IsNeg(object.points[2][3])
  /\ ~IsNeg(object.points[1][3])
  /\ Close(object.weights[1], Frac(4, 3))

---------------------------------------------------------------------------
(* integrate over degenerate tetrahedra.                                   *)

\* the number of coplanar vertices degenerate tetrahedra are built from
MaxPlane == 4

\* vertex k of the plane z = x + y: ((k-1)/2, (k-1)(k-2)/2, their sum); no
\* three of them are on one line
PlaneVertex(k) ==
  LET a == DivInt(FromInt(k - 1), 2)
      b == FromInt(((k - 1) * (k - 2)) \div 2)
  IN <<a, b, Add(a, b)>>

\* four coplanar vertices, repeated vertices included, in every order that
\* does not put the second vertex before the first
DegenerateTetrahedra ==
  {<<PlaneVertex(t[1]), PlaneVertex(t[2]), PlaneVertex(t[3]),
     PlaneVertex(t[4])>> :
     t \in {u \in [1..4 -> 1..MaxPlane] : u[1] <= u[2]}}

\* the integrands used on them: 1 and x y^2
DegenerateIntegrands == {<<0, 0, 0>>, <<1, 2, 0>>}

\* a scheme is constructed and integrates over a degenerate tetrahedron
NextDegenerate ==
  \/ call.op = "none" /\ ConstructTetrahedronScheme
  \/ /\ SchemeConstructed
     /\ \E f \in DegenerateIntegrands, tetrahedron \in DegenerateTetrahedra :
          Integrate(f, tetrahedron)

SpecDegenerate == Init /\ [][NextDegenerate]_vars

\* f(x) is a number at every mapped point of the call
FiniteIntegrand ==
  \A i \in 1..Len(object.points) :
    ~IsNaN(Monomial(call.f, MapPoint(call.tetrahedron, object.points[i])))

\* C13: for a tetrahedron whose determinant is 0 (four coplanar vertices,
\* repeated vertices included), every scheme and every integrand with
\* finite values, integrate raises nothing and returns 0.
C13_DegenerateGivesZero ==
  (/\ call.op = "integrate"
   /\ Det(call.tetrahedron) = Zero
   /\ FiniteIntegrand) =>
    /\ result.kind = "returned"
    /\ result.value = Zero

\* Keast(4) has integrated x y^2 over four different coplanar vertices,
\* at which the integrand is not 0 everywhere, and returned 0
C13_Witness ==
  /\ call.op = "integrate"
  /\ call.scheme = <<"Keast", 4>>
  /\ call.f = <<1, 2, 0>>
  /\ \A i, j \in 1..4 : i # j => call.tetrahedron[i] # call.tetrahedron[j]
  /\ Det(call.tetrahedron) = Zero
  /\ FiniteIntegrand
  /\ \E i \in 1..Len(object.points) :
       Less(Zero, Monomial(call.f,
                           MapPoint(call.tetrahedron, object.points[i])))
  /\ result = Value(Zero)

---------------------------------------------------------------------------
(* Orientation of the tetrahedron.                                         *)

\* det after det *= 1.0/6.0: the signed scaling factor
ScalingFactor(tetrahedron) == Mul(Det(tetrahedron), Frac(1, 6))

\* the tetrahedron with vertices i and j exchanged
Swapped(tetrahedron, i, j) ==
  LET at(v) == IF v = i THEN tetrahedron[j]
               ELSE IF v = j THEN tetrahedron[i] ELSE tetrahedron[v]
  IN <<at(1), at(2), at(3), at(4)>>

\* C14: the scaling factor det(v1-v0, v2-v0, v3-v0)/6 is signed, and
\* integrate multiplies by its absolute value: for the integrand 1, any
\* scheme and any tetrahedron, exchanging two vertices negates the scaling
\* factor (one of the two is negative unless both are 0) and leaves the
\* returned value, which is not negative, the same.
C14_SwapKeepsResult ==
  (call.op = "integrate" /\ call.f = <<0, 0, 0>>) =>
    /\ ~IsNaN(result.value)
    /\ ~IsNeg(result.value)
    /\ \A i, j \in 1..4 :
         i < j =>
           LET swapped == Swapped(call.tetrahedron, i, j)
           IN /\ ScalingFactor(swapped)
                   = Neg(ScalingFactor(call.tetrahedron))
              /\ ScalingFactor(call.tetrahedron) # Zero =>
                   IsNeg(ScalingFactor(swapped))
                     # IsNeg(ScalingFactor(call.tetrahedron))
              /\ integrate(call.f, swapped, object) = result.value

\* Keast(8), which has negative weights, has integrated 1 over a
\* tetrahedron of negative scaling factor and returned a positive value
C14_Witness ==
  /\ call.op = "integrate"
  /\ call.f = <<0, 0, 0>>
  /\ call.scheme = <<"Keast", 8>>
  /\ \E t \in 1..Len(object.weights) : IsNeg(object.weights[t])
  /\ IsNeg(ScalingFactor(call.tetrahedron))
  /\ Less(Zero, ScalingFactor(Swapped(call.tetrahedron, 1, 2)))
  /\ Less(Zero, result.value)

---------------------------------------------------------------------------
(* Calls of integrate that share one scheme.  A store holds what one call  *)
(* of integrate can reach: the scheme and the caller's vertex array, both  *)
(* passed by reference, and the call's local names.  Each statement of     *)
(* integrate maps the store before it to the store after it.  The callers  *)
(* run their statements in any interleaving.                               *)

\* faulty variant of integrate_return: the weights are scaled in place,
\* scheme.weights *= abs(det), before the sum is taken
ScalingWeightsInPlace(store) ==
  LET scaled == [i \in 1..Len(store.scheme.weights) |->
                   MulF(store.scheme.weights[i], Abs(store.det))]
  IN [store EXCEPT
        !.scheme.weights = scaled \o <<>>,
        !.value = fsumF([i \in 1..Len(scaled) |->
                           MulF(scaled[i], Monomial(store.f, store.x[i]))])]

\* xi = scheme.points.T; x = outer(tetrahedron[0], 1.0 - xi[0] - ...) + ...
integrate_x(store) ==
  [store EXCEPT
     !.x = [i \in 1..Len(store.scheme.points) |->
              MapPoint(store.tetrahedron, store.scheme.points[i]) \o <<>>]
           \o <<>>]

\* J0, J1, J2 and det = J0[0]*J1[1]*J2[2] + ...
integrate_det(store) == [store EXCEPT !.det = Det(store.tetrahedron)]

\* det *= 1.0/6.0
integrate_reference_volume(store) ==
  [store EXCEPT !.det = Mul(store.det, Frac(1, 6))]

\* return math.fsum(scheme.weights * f(x).T * abs(det))
integrate_return(store) ==
  [store EXCEPT
     !.value = fsumF([i \in 1..Len(store.scheme.weights) |->
                        MulF(MulF(store.scheme.weights[i],
                                  Monomial(store.f, store.x[i])),
                             Abs(store.det))])]

\* the number of callers that share the scheme
MaxCallers == 2

Callers == 1..MaxCallers

\* the arguments (f, tetrahedron) the callers pass: x over the reference
\* tetrahedron, and y z over a tetrahedron of negative orientation
SharedArguments ==
  {[f |-> <<1, 0, 0>>, tetrahedron |-> ReferenceTetrahedron],
   [f |-> <<0, 1, 1>>,
    tetrahedron |-> <<Vertex(2), Vertex(1), Vertex(3), Vertex(5)>>]}

\* a caller that has not called yet
Idle ==
  [pc |-> "idle", given |-> [f |-> <<>>, tetrahedron |-> <<>>],
   tetrahedron |-> <<>>, x |-> <<>>, det |-> Zero, value |-> Zero]

\* the frames of the callers, before the first call
Frames == IF "frames" \in DOMAIN call THEN call.frames
          ELSE [c \in Callers |-> Idle]

\* the store caller c's statements work on
Store(c) ==
  [scheme |-> object, tetrahedron |-> Frames[c].tetrahedron,
   f |-> Frames[c].given.f, x |-> Frames[c].x, det |-> Frames[c].det,
   value |-> Frames[c].value]

\* caller c goes on to position pc, its statement leaving the store after
Continue(c, pc, after) ==
  /\ call' = [op |-> "integrate", scheme |-> SchemeId,
              frames |-> [Frames EXCEPT ![c] =
                            [pc |-> pc, given |-> Frames[c].given,
                             tetrahedron |-> after.tetrahedron,
                             x |-> after.x, det |-> after.det,
                             value |-> after.value]]]
  /\ object' = after.scheme

\* caller c calls integrate(f, tetrahedron, scheme) with the shared scheme
SharedEnter(c) ==
  /\ Frames[c].pc \in {"idle", "done"}
  /\ \E given \in SharedArguments :
       /\ call' = [op |-> "integrate", scheme |-> SchemeId,
                   frames |-> [Frames EXCEPT ![c] =
                                 [Idle EXCEPT !.pc = "x", !.given = given,
                                    !.tetrahedron = given.tetrahedron]]]
       /\ UNCHANGED <<object, result>>

SharedX(c) ==
  /\ Frames[c].pc = "x"
  /\ Continue(c, "det", integrate_x(Store(c)))
  /\ UNCHANGED result

SharedDet(c) ==
  /\ Frames[c].pc = "det"
  /\ Continue(c, "reference volume", integrate_det(Store(c)))
  /\ UNCHANGED result

SharedReferenceVolume(c) ==
  /\ Frames[c].pc = "reference volume"
  /\ Continue(c, "return", integrate_reference_volume(Store(c)))
  /\ UNCHANGED result

SharedReturn(c) ==
  /\ Frames[c].pc = "return"
  /\ Continue(c, "done", integrate_return(Store(c)))
  /\ result' = Value(call'.frames[c].value)

\* a Keast or Shunn-Ham scheme is constructed, then the callers run
\* integrate on it, each statement by statement
NextShared ==
  \/ call.op = "none" /\ (ConstructKeast \/ ConstructShunnHam)
  \/ /\ \/ SchemeConstructed
        \/ call.op = "integrate"
     /\ \E c \in Callers :
          \/ SharedEnter(c)
          \/ SharedX(c)
          \/ SharedDet(c)
          \/ SharedReferenceVolume(c)
          \/ SharedReturn(c)

SpecShared == Init /\ [][NextShared]_vars

\* a step of the callers leaves the scheme and every caller's vertex
\* array as they were, and a call that returns in this step returns what
\* integrate returns for its arguments and the scheme
InputsKept ==
  call.op # "none" =>
    /\ object' = object
    /\ \A c \in Callers :
         /\ call'.frames[c].pc # "idle" =>
              call'.frames[c].tetrahedron = call'.frames[c].given.tetrahedron
         /\ (Frames[c].pc = "return" /\ call'.frames[c].pc = "done") =>
              call'.frames[c].value
                = integrate(call'.frames[c].given.f,
                            call'.frames[c].given.tetrahedron, object)

\* C15: integrate never modifies its inputs: in any sequence or
\* interleaving of integrate calls that share one scheme, every step
\* leaves scheme.points, scheme.weights, scheme.degree and the callers'
\* vertex arrays unchanged, and each call returns the value integrate
\* returns when run alone on the same arguments.
C15_InputsNeverModified == [][InputsKept]_vars

\* caller 1 has returned from integrate(x, reference tetrahedron) with
\* Keast(4) while caller 2, who entered before caller 1 returned, is in
\* the middle of its own call on the other arguments
C15_Witness ==
  /\ call.op = "integrate"
  /\ call.scheme = <<"Keast", 4>>
  /\ call.frames[1].pc = "done"
  /\ call.frames[1].given.f = <<1, 0, 0>>
  /\ call.frames[2].pc = "return"
  /\ call.frames[2].given.f = <<0, 1, 1>>
  /\ IsNeg(call.frames[2].det)
  /\ result = Value(integrate(<<1, 0, 0>>, ReferenceTetrahedron, object))

---------------------------------------------------------------------------
(* Positivity of the Zhang-Cui-Liu and Shunn-Ham schemes.                  *)

\* C16: for ZhangCuiLiu index 1 and 2 every weight is strictly positive
\* and every point lies inside the tetrahedron: the four barycentric
\* coordinates of every orbit row, the derived one (1-3a, 1/2-a, 1-2a-b,
\* 1-a-b-c) included, are in [0,1], the stored point is columns 1..3 of
\* the row, and the coordinate 1 - xi0 - xi1 - xi2 rebuilt from the stored
\* point is in [0,1] too.
C16_ZhangCuiLiuInside ==
  (call.op = "ZhangCuiLiu" /\ call.args[1] \in ZhangCuiLiuIndices) =>
    LET bary == concatenate(ZhangCuiLiuBaryParts(call.args[1]))
    IN /\ Len(object.weights) = Len(bary)
       /\ Len(object.points) = Len(bary)
       /\ \A t \in 1..Len(bary) :
            /\ Less(Zero, object.weights[t])
            /\ \A q \in 1..4 : InUnitInterval(bary[t][q])
            /\ object.points[t] = <<bary[t][2], bary[t][3], bary[t][4]>>
            /\ InUnitInterval(Sub(Sub(Sub(One, object.points[t][1]),
                                      object.points[t][2]),
                                  object.points[t][3]))

\* ZhangCuiLiu(2) was constructed with 236 positive weights and a point
\* whose coordinates are all below 0.1 (its row's first coordinate 1 - 3a is
\* rebuilt above 0.9)
C16_Witness ==
  /\ call.op = "ZhangCuiLiu"
  /\ call.args = <<2>>
  /\ Len(object.weights) = 236
  /\ \A t \in 1..236 : Less(Zero, object.weights[t])
  /\ \E t \in 1..236 :
       /\ \A q \in 1..3 : Less(object.points[t][q], Frac(1, 10))
       /\ Less(Frac(9, 10), Sub(Sub(Sub(One, object.points[t][1]),
                                    object.points[t][2]),
                                object.points[t][3]))

\* the point counts of the cubic close-packed arrangement
ShunnHamPointCount == <<1, 4, 10, 20, 35, 56>>

\* C17: ShunnHam(index) for index = 1, ..., 6 has exactly 1, 4, 10, 20, 35
\* and 56 quadrature points (the tetrahedral numbers), as many weights, and
\* every weight is strictly positive.
C17_ShunnHamPointCounts ==
  (call.op = "ShunnHam" /\ call.args[1] \in 1..6) =>
    LET index == call.args[1]
    IN /\ result.kind = "returned"
       /\ Len(object.points) = ShunnHamPointCount[index]
       /\ Len(object.weights) = ShunnHamPointCount[index]
       /\ ShunnHamPointCount[index]
            = (index * (index + 1) * (index + 2)) \div 6
       /\ \A t \in 1..Len(object.weights) : Less(Zero, object.weights[t])

\* ShunnHam(5) was constructed with 35 points, the centroid among them,
\* and 35 positive weights
C17_Witness ==
  /\ call.op = "ShunnHam"
  /\ call.args = <<5>>
  /\ Len(object.points) = 35
  /\ object.points[35] = <<Quarter, Quarter, Quarter>>
  /\ Len(object.weights) = 35
  /\ \A t \in 1..35 : Less(Zero, object.weights[t])

---------------------------------------------------------------------------
(* Where integrate evaluates the integrand.                                *)

\* a tetrahedron of positive and one of negative orientation, with
\* vertices off the lattice
SkewTetrahedron == <<Vertex(5), Vertex(2), Vertex(4), Vertex(3)>>

MapTetrahedra ==
  {ReferenceTetrahedron, SkewTetrahedron, Swapped(SkewTetrahedron, 1, 3)}

MapIntegrands == {<<1, 0, 0>>, <<0, 1, 2>>}

\* a scheme is constructed and integrates a monomial over a tetrahedron
NextMap ==
  \/ call.op = "none" /\ ConstructTetrahedronScheme
  \/ /\ SchemeConstructed
     /\ \E f \in MapIntegrands, tetrahedron \in MapTetrahedra :
          Integrate(f, tetrahedron)

SpecMap == Init /\ [][NextMap]_vars

\* bary of the scheme made by the constructor call id = <<class, argument>>
BaryOf(id) ==
  IF id[1] \in NewtonCotes THEN NewtonCotesBary(id[1], id[2])
  ELSE concatenate(BaryPartsOf(id[1], id[2]))

\* b0 v0 + b1 v1 + b2 v2 + b3 v3
BarycentricCombination(tetrahedron, b) ==
  [c \in 1..3 |->
     AddF(AddF(AddF(MulF(b[1], tetrahedron[1][c]),
                    MulF(b[2], tetrahedron[2][c])),
               MulF(b[3], tetrahedron[3][c])),
          MulF(b[4], tetrahedron[4][c]))]

\* (v0 + v1 + v2 + v3) / 4
Centroid(tetrahedron) ==
  [c \in 1..3 |->
     DivInt(Add(Add(Add(tetrahedron[1][c], tetrahedron[2][c]),
                    tetrahedron[3][c]), tetrahedron[4][c]), 4)]

\* C18: the constructors store columns 1..3 of each barycentric row
\* (b0, b1, b2, b3); integrate rebuilds the dropped coordinate as
\* 1 - xi0 - xi1 - xi2 and attaches it to vertex 0: for every scheme point
\* whose row sums to 1 the integrand is evaluated at
\* b0 v0 + b1 v1 + b2 v2 + b3 v3 (to within Tol in each coordinate); a row
\* (1,0,0,0) is mapped to v0 and the centroid row to the centroid of the
\* tetrahedron.
C18_EvaluatedAtBarycentricCombination ==
  call.op = "integrate" =>
    LET bary == BaryOf(call.scheme)
    IN /\ Len(object.points) = Len(bary)
       /\ \A i \in 1..Len(bary) :
            LET x == MapPoint(call.tetrahedron, object.points[i]) \o <<>>
                at == BarycentricCombination(call.tetrahedron, bary[i])
            IN /\ object.points[i] = <<bary[i][2], bary[i][3], bary[i][4]>>
               /\ Close(RowSum(bary[i]), One) =>
                    \A c \in 1..3 : Close(x[c], at[c])
               /\ bary[i] = <<One, Zero, Zero, Zero>> =>
                    x = call.tetrahedron[1]
               /\ bary[i] = <<Quarter, Quarter, Quarter, Quarter>> =>
                    x = Centroid(call.tetrahedron)

\* NewtonCotesClosed(2), whose first three rows are (0,0,0,1), (0,0,1/2,1/2)
\* and (0,0,1,0) and whose last row is (1,0,0,0), has integrated over the
\* skew tetrahedron: its last point is mapped to v0, its first to v3
C18_Witness ==
  /\ call.op = "integrate"
  /\ call.scheme = <<"NewtonCotesClosed", 2>>
  /\ call.tetrahedron = SkewTetrahedron
  /\ BaryOf(call.scheme)[10] = <<One, Zero, Zero, Zero>>
  /\ object.points[10] = <<Zero, Zero, Zero>>
  /\ MapPoint(call.tetrahedron, object.points[10]) \o <<>> = Vertex(5)
  /\ MapPoint(call.tetrahedron, object.points[1]) \o <<>> = Vertex(3)

---------------------------------------------------------------------------
(* Symmetry of the tabulated schemes.                                      *)

\* the sequence v reordered by the permutation s: entry k is v[s[k]]
Reordered(v, s) == <<v[s[1]], v[s[2]], v[s[3]], v[s[4]]>>

\* the (weight, barycentric row) pairs of a scheme, as a set
WeightedRows(weights, bary) ==
  {<<weights[i], bary[i]>> : i \in 1..Len(bary)}

\* the points x and y agree to within Tol in each coordinate
ClosePoint(x, y) == \A c \in 1..3 : Close(x[c], y[c])

\* C19: every tabulated tetrahedron scheme is fully symmetric: its
\* (weight, barycentric row) pairs are pairwise different and, as a set,
\* unchanged by every permutation of the four coordinates; hence for every
\* reordering of the four vertices each point has a partner of the same
\* weight that the reordered tetrahedron maps to where the original
\* tetrahedron maps the point (to within Tol), and integrate returns the
\* same value (to within Tol).
C19_FullySymmetric ==
  (call.op = "integrate" /\ call.scheme[1] \in Families) =>
    LET bary == BaryOf(call.scheme)
        pairs == WeightedRows(object.weights, bary)
    IN /\ Cardinality(pairs) = Len(bary)
       /\ \A s \in Perms4 :
            LET reordered == Reordered(call.tetrahedron, s)
            IN /\ {<<p[1], Reordered(p[2], s)>> : p \in pairs} = pairs
               /\ \A i \in 1..Len(bary) :
                    \E j \in 1..Len(bary) :
                      /\ bary[j] = Reordered(bary[i], s)
                      /\ object.weights[j] = object.weights[i]
                      /\ ClosePoint(MapPoint(reordered, object.points[j]),
                                    MapPoint(call.tetrahedron,
                                             object.points[i]))
               /\ Close(integrate(call.f, reordered, object), result.value)

\* LiuVinokur(14), built from _r_alpha, _r_beta and _r_gamma_delta orbits,
\* has integrated y z^2 over the skew tetrahedron; exchanging v0 and v1
\* moves the image of its second point, and gives the same integral
C19_Witness ==
  /\ call.op = "integrate"
  /\ call.scheme = <<"LiuVinokur", 14>>
  /\ call.f = <<0, 1, 2>>
  /\ call.tetrahedron = SkewTetrahedron
  /\ Cardinality(WeightedRows(object.weights, BaryOf(call.scheme)))
       = Len(object.points)
  /\ ~ClosePoint(MapPoint(Swapped(SkewTetrahedron, 1, 2), object.points[2]),
                 MapPoint(SkewTetrahedron, object.points[2]))
  /\ ~IsNaN(result.value)
  /\ result.value # Zero
  /\ Close(integrate(call.f, Swapped(SkewTetrahedron, 1, 2), object),
           result.value)

---------------------------------------------------------------------------
(* The five constructions of the 5-point rule of degree 3.                 *)

FivePointRules ==
  {<<"Keast", 2>>, <<"Yu", 2>>, <<"Zienkiewicz", 5>>, <<"LiuVinokur", 5>>,
   <<"HammerMarloweStroud", 3>>}

\* the scheme object the constructor call id of FivePointRules makes
FivePointScheme(id) ==
  CASE id[1] = "Keast" -> Keast(id[2]).self
    [] id[1] = "Yu" -> Yu(id[2]).self
    [] id[1] = "Zienkiewicz" -> Zienkiewicz(id[2]).self
    [] id[1] = "LiuVinokur" -> LiuVinokur(id[2]).self
    [] id[1] = "HammerMarloweStroud" -> HammerMarloweStroud(id[2]).self

\* the rows a and b agree to within Tol in each coordinate
CloseRow(a, b) == \A q \in 1..4 : Close(a[q], b[q])

\* C20: Keast(2), Yu(2), Zienkiewicz(5), LiuVinokur(5) and
\* HammerMarloweStroud(3) all have degree 3, the weight -4/5 on the
\* centroid and 9/20 on each of four more points, which are the four
\* permutations of (1/2, 1/6, 1/6, 1/6) (to within Tol); _r(1/3) and
\* _r_alpha(1/3) are the orbit _s31(1/6) in the reverse row order; and
\* integrate returns the same value (to within Tol) for all five.
C20_FivePointRulesAgree ==
  (call.op = "integrate" /\ call.scheme \in FivePointRules) =>
    LET bary == BaryOf(call.scheme)
        orbit == _s31(Frac(1, 6))
    IN /\ object.degree = 3
       /\ object.weights = <<Neg(Frac(4, 5)), Frac(9, 20), Frac(9, 20),
                             Frac(9, 20), Frac(9, 20)>>
       /\ Len(bary) = 5
       /\ bary[1] = <<Quarter, Quarter, Quarter, Quarter>>
       /\ \A target \in PermutationsOf(<<Half, Frac(1, 6), Frac(1, 6),
                                         Frac(1, 6)>>) :
            Cardinality({t \in 2..5 : CloseRow(bary[t], target)}) = 1
       /\ \A t \in 1..4 :
            /\ CloseRow(_r(Frac(1, 3))[t], orbit[5 - t])
            /\ CloseRow(_r_alpha(Frac(1, 3))[t], orbit[5 - t])
       /\ \A id \in FivePointRules :
            Close(integrate(call.f, call.tetrahedron, FivePointScheme(id)),
                  result.value)

\* HammerMarloweStroud(3), whose second row is (1/2, 1/6, 1/6, 1/6) where
\* Keast(2)'s is (1/6, 1/6, 1/6, 1/2), has integrated y z^2 over the skew
\* tetrahedron and returned what Keast(2) returns
C20_Witness ==
  /\ call.op = "integrate"
  /\ call.scheme = <<"HammerMarloweStroud", 3>>
  /\ call.f = <<0, 1, 2>>
  /\ call.tetrahedron = SkewTetrahedron
  /\ Close(BaryOf(call.scheme)[2][1], Half)
  /\ Close(BaryOf(<<"Keast", 2>>)[2][4], Half)
  /\ Less(Zero, object.weights[2])
  /\ IsNeg(object.weights[1])
  /\ result.value # Zero
  /\ Close(integrate(call.f, call.tetrahedron, Keast(2).self), result.value)

=============================================================================
